---------------------------- MODULE Spec2Model ----------------------------
(***************************************************************************)
(* A model of the netloader client of cargo-nx:                            *)
(*   - loader/send.rs       send_nro_file, the TCP upload client           *)
(*   - loader/discovery.rs  discover, the UDP broadcast discovery client   *)
(*   - stdio.rs             start_server, the stdio redirect server        *)
(* Every await of the code is one action; the synchronous code between two *)
(* awaits belongs to the action that runs it.  Bytes are the integers      *)
(* 0..255 and byte strings are sequences of them.                          *)
(***************************************************************************)
EXTENDS Integers, Sequences, FiniteSets, TLC

VARIABLES
    \* ---- send_nro_file (loader/send.rs) ----
    file_name,      \* argument file_name: &str, as bytes
    file_length,    \* argument file_length: usize, as its 8 little-endian bytes
    cmd_args,       \* argument cmd_args: the list of argument strings (bytes)
    file_data,      \* every byte file_reader yields: the content of the file
    zstream,        \* every byte the ZlibEncoder yields for the file (fixed by the file)
    zrest,          \* the part of zstream the encoder has not yet returned
    short_reads,    \* number of encoder reads that returned less than was available
    s_pc,           \* position of send_nro_file
    s_site,         \* which call of write_length_prefixed is running
    s_frame,        \* the data argument of the running write_length_prefixed
    s_log,          \* history: every socket operation that took effect, in order
    s_result,       \* the io::Result<()> returned by send_nro_file, or NoResult
    rx,             \* bytes the peer has sent which the client has not read
    peer_sent,      \* number of acknowledgement codes the peer has sent
    total_in,       \* encoder.total_in(): bytes of the file the encoder has consumed
    prev_in,        \* encoder.total_in() before the last encoder.read
    delivered,      \* number of the written bytes that have reached the peer
    \* ---- discover (loader/discovery.rs) ----
    timeout,        \* argument timeout: Duration, in clock ticks
    retries,        \* argument retries: u32
    d_pc,           \* position of discover
    attempt,        \* the loop variable of `for attempt in 0..retries`
    now,            \* clock ticks elapsed since discover entered its loop
    deadline,       \* the tick at which the running attempt's timeout fires
    inbox,          \* datagrams queued on receive_socket, not yet received
    arrived,        \* number of datagrams that reached receive_socket
    probes,         \* history: number of probes sent
    windows,        \* history: number of timeouts that fired
    io_failures,    \* history: number of send_to and recv_from calls that failed
    received,       \* history: the datagrams recv_from returned, in order
    d_result,       \* the io::Result<Option<IpAddr>> returned, or NoResult
    \* ---- a second call of discover, made while the first one runs ----
    o_pc,           \* position of the second call
    o_probes,       \* history: number of probes the second call sent
    o_result,       \* what the second call returned, or NoDResult
    \* ---- start_server (stdio.rs) ----
    st_pc,          \* position of start_server / handle_stream
    backlog,        \* clients whose connection the listener holds, not yet accepted
    conn,           \* the client whose connection accept returned, 0 when none
    c_state,        \* for each client: "idle", "connected" or "closed"
    c_sent,         \* for each client: every byte it has written on its connection
    sends,          \* number of writes the clients have made
    consumed,       \* number of bytes of c_sent[conn] that stream.read has returned
    buffer,         \* `let mut buffer = [0u8; 1024]`
    st_len,         \* the `len` of `Ok(len)` of the last read
    st_short,       \* number of reads that returned less than was available
    st_out,         \* every byte written to io::stdout(), in order
    accepts,        \* history: number of connections accept returned
    zero_reads,     \* history: number of reads that returned Ok(0)
    st_result,      \* the io::Result<()> returned by start_server, or NoStResult
    \* ---- handle_subcommand (src/link.rs) ----
    l_pc,           \* position of handle_subcommand
    address,        \* field address: Option<IpAddr>, "" for None
    l_retries,      \* field retries: u32
    server,         \* field server: bool
    remote_addr,    \* `let remote_addr`, "" while not set
    handler,        \* whether tokio has installed its handler of the interrupt signal
    sigints,        \* number of interrupt signals the process was sent
    ctrl_c,         \* whether the ctrl_c() future of the running select! is ready
    l_out           \* the outcome messages printed, in order

send_vars == <<file_name, file_length, cmd_args, file_data, zstream, zrest, short_reads,
               s_pc, s_site, s_frame, s_log, s_result, rx, peer_sent,
               total_in, prev_in, delivered>>

disc_vars == <<timeout, retries, d_pc, attempt, now, deadline, inbox, arrived,
               probes, windows, io_failures, received, d_result>>

stdio_vars == <<st_pc, backlog, conn, c_state, c_sent, sends, consumed, buffer,
                st_len, st_short, st_out, accepts, zero_reads, st_result>>

other_vars == <<o_pc, o_probes, o_result>>

link_vars == <<l_pc, address, l_retries, server, remote_addr, handler, sigints,
               ctrl_c, l_out>>

vars == <<send_vars, disc_vars, other_vars, stdio_vars, link_vars>>

\* what the steps of send_nro_file, of discover and of start_server leave alone
enc_vars == <<total_in, prev_in>>

s_rest == <<delivered, disc_vars, other_vars, stdio_vars, link_vars>>

d_rest == <<send_vars, other_vars, stdio_vars, link_vars>>

st_rest == <<send_vars, disc_vars, other_vars, link_vars>>

NoResult == [ok |-> FALSE, kind |-> "none", variant |-> "", code |-> 0]

-----------------------------------------------------------------------------
(* Bytes and integers on the wire *)

Min(a, b) == IF a <= b THEN a ELSE b

\* n copies of byte b
Fill(n, b) == [i \in 1..n |-> b]

\* faulty variant of LE32: write_u32, most significant byte first
BE32(v) == << (v \div 16777216) % 256, (v \div 65536) % 256, (v \div 256) % 256, v % 256 >>

\* write_u32_le: the four bytes of a u32, least significant first (v < 2^31 here)
LE32(v) == << v % 256, (v \div 256) % 256, (v \div 65536) % 256, (v \div 16777216) % 256 >>

\* the u32 value of four little-endian bytes (values below 2^31 only)
FromLE32(b) == b[1] + 256 * b[2] + 65536 * b[3] + 16777216 * b[4]

\* read_i32_le: four little-endian bytes as a two's complement i32
I32FromLE(b) ==
    IF b[4] >= 128
    THEN b[1] + 256 * b[2] + 65536 * b[3] + 16777216 * (b[4] - 256)
    ELSE b[1] + 256 * b[2] + 65536 * b[3] + 16777216 * b[4]

\* the four little-endian bytes of an i32 (what a peer writes for code c)
I32ToLE(c) ==
    LET m == IF c >= 0 THEN c ELSE c + 2147483647 + 1   \* the low 31 bits
    IN << m % 256, (m \div 256) % 256, (m \div 65536) % 256,
          ((m \div 16777216) % 256) + (IF c >= 0 THEN 0 ELSE 128) >>

\* faulty variant of AsU32Bytes: a length that does not fit is sent as u32::MAX
AsU32Saturating(usize8) ==
    IF SubSeq(usize8, 5, 8) = <<0, 0, 0, 0>> THEN SubSeq(usize8, 1, 4)
    ELSE <<255, 255, 255, 255>>

\* `file_length as u32`: a usize is 8 bytes, the cast keeps the low 32 bits
AsU32Bytes(usize8) == SubSeq(usize8, 1, 4)

\* the 8 little-endian bytes of the usize hi * 2^32 + lo, for hi, lo < 256
USize(hi, lo) == <<lo, 0, 0, 0, hi, 0, 0, 0>>

-----------------------------------------------------------------------------
(* Program constants *)

MAX_FILE_CHUNK_SIZE == 16384

MAX_CMD_BUF_SIZE == 3072

-----------------------------------------------------------------------------
(* Bounds of the inputs *)

\* longest argument list tried
MaxArgs == 3

\* number of acknowledgement codes the peer may send during one call
MaxPeerAcks == 3

\* number of encoder reads that may return less than is available
MaxShortReads == 1

\* number of acknowledgement codes the peer may have sent ahead of the client
MaxPending == 1

\* lengths of the argument strings tried: around the 3072 byte cap
ArgLens == {0, 1, MAX_CMD_BUF_SIZE - 2, MAX_CMD_BUF_SIZE - 1, MAX_CMD_BUF_SIZE}

\* the argument of length n at position i of a list (its bytes name the position)
ArgBytes(n, i) == Fill(n, 96 + i)

RECURSIVE ArgListsOf(_)
ArgListsOf(k) ==
    IF k = 0 THEN {<<>>}
    ELSE LET shorter == ArgListsOf(k - 1)
         IN shorter \cup { Append(l, ArgBytes(n, Len(l) + 1)) :
                             l \in {s \in shorter : Len(s) = k - 1}, n \in ArgLens }

ArgLists == ArgListsOf(MaxArgs)

Names == { <<97>>, <<104, 105, 46, 110, 114, 111>> }      \* "a", "hi.nro"

FileLengths == { USize(0, 0), USize(0, 8), USize(1, 8) }  \* 0, 8, 2^32 + 8

\* the sum of d[lo..hi] modulo 65521; with `weighted`, of (Len(d) - i + 1) * d[i]
RECURSIVE AdlerSum(_, _, _, _)
AdlerSum(d, lo, hi, weighted) ==
    IF lo > hi THEN 0
    ELSE IF lo = hi
         THEN IF weighted THEN ((Len(d) - lo + 1) * d[lo]) % 65521 ELSE d[lo]
         ELSE LET mid == (lo + hi) \div 2
              IN (AdlerSum(d, lo, mid, weighted) + AdlerSum(d, mid + 1, hi, weighted)) % 65521

\* the Adler-32 checksum that ends a zlib stream, most significant byte first
Adler32(d) ==
    LET a == (1 + AdlerSum(d, 1, Len(d), FALSE)) % 65521
        b == (Len(d) + AdlerSum(d, 1, Len(d), TRUE)) % 65521
    IN << b \div 256, b % 256, a \div 256, a % 256 >>

\* a zlib stream of `data` (fewer than 65536 bytes): the header 78 9C, one
\* final stored block (01, LEN, its complement, the bytes), the checksum.
\* Which blocks the encoder chooses is the zlib library's decision; a stored
\* block is the encoding every inflater reads back without a code table.
ZlibStored(data) ==
    <<120, 156, 1>>
    \o << Len(data) % 256, Len(data) \div 256 >>
    \o << (65535 - Len(data)) % 256, (65535 - Len(data)) \div 256 >>
    \o data
    \o Adler32(data)

NoInflate == [ok |-> FALSE, data |-> <<>>, next |-> 0]

\* the deflate blocks of s from position p on, `out` being what the blocks
\* before gave: stored blocks, and the final fixed block that holds nothing
\* (03 00); a block with compressed data is not read by this model
RECURSIVE InflateBlocks(_, _, _)
InflateBlocks(s, p, out) ==
    IF p > Len(s) THEN NoInflate
    ELSE IF s[p] \in {0, 1}
         THEN IF p + 4 > Len(s) THEN NoInflate
              ELSE LET n  == s[p + 1] + 256 * s[p + 2]
                       nn == s[p + 3] + 256 * s[p + 4]
                       all == out \o SubSeq(s, p + 5, p + 4 + n)
                   IN IF n + nn # 65535 \/ p + 4 + n > Len(s) THEN NoInflate
                      ELSE IF s[p] = 1
                           THEN [ok |-> TRUE, data |-> all, next |-> p + 5 + n]
                           ELSE InflateBlocks(s, p + 5 + n, all)
         ELSE IF s[p] = 3 /\ p < Len(s) /\ s[p + 1] = 0
              THEN [ok |-> TRUE, data |-> out, next |-> p + 2]
              ELSE NoInflate

\* what the peer obtains when it inflates the zlib stream s: the header is
\* checked, the blocks are read, the checksum is compared, nothing may follow
Inflate(s) ==
    IF Len(s) < 2 THEN NoInflate
    ELSE IF s[1] # 120 \/ (256 * s[1] + s[2]) % 31 # 0 \/ (s[2] \div 32) % 2 = 1
         THEN NoInflate
         ELSE LET r == InflateBlocks(s, 3, <<>>)
              IN IF ~r.ok \/ Len(s) # r.next + 3 THEN NoInflate
                 ELSE IF SubSeq(s, r.next, r.next + 3) # Adler32(r.data) THEN NoInflate
                      ELSE r

\* files and their zlib streams: the empty file (the 8 bytes zlib emits for
\* it), a file whose stream is one byte longer than a chunk, and 20000 zero
\* bytes with the 42 bytes zlib emits for them at its default level
EmptyZlib == <<120, 156, 3, 0, 0, 0, 0, 1>>

LongData == Fill(MAX_FILE_CHUNK_SIZE - 10, 7)

LongZlib == ZlibStored(LongData)

ZeroData == Fill(20000, 0)

ZeroZlib ==
    <<120, 156, 237, 193, 49, 1, 0, 0, 0, 194, 160, 245, 79, 109, 13, 15, 160>>
    \o Fill(19, 0) \o <<120, 48, 78, 32, 0, 1>>

\* file contents whose streams are tried whole: none, one byte, three bytes
Contents == { <<>>, <<97>>, <<97, 98, 99>> }

\* a length as `usize`, from its value (below 2^32)
USizeOf(n) == LE32(n) \o <<0, 0, 0, 0>>

\* calls in which the declared length is true, too small and too large, and
\* one of a file that zlib shrinks to less than a chunk
StreamInputs ==
    UNION { { [name |-> <<97>>, len |-> l, data |-> c, z |-> ZlibStored(c), args |-> <<>>] :
                l \in {USizeOf(Len(c))} \cup FileLengths } : c \in Contents }
    \cup
    { [name |-> <<97>>, len |-> USizeOf(Len(ZeroData)), data |-> ZeroData,
       z |-> ZeroZlib, args |-> <<>>] }

\* acknowledgement codes the peer may send
AckCodes == {0, -1, -2, -3, -4, 1, 2147483647, -2147483647 - 1}

\* an argument list of which only the first argument fits the cap
LongArgs == << ArgBytes(MAX_CMD_BUF_SIZE - 2, 1), ArgBytes(1, 2), ArgBytes(0, 3) >>

\* the calls tried: every name and length with three argument lists, and a
\* file whose stream does not fit one chunk
SendInputs ==
    { [name |-> n, len |-> l, data |-> <<>>, z |-> EmptyZlib, args |-> a] :
        n \in Names, l \in FileLengths, a \in { <<>>, <<ArgBytes(1, 1)>>, LongArgs } }
    \cup
    { [name |-> <<97>>, len |-> USize(0, 8), data |-> LongData, z |-> LongZlib,
       args |-> <<>>] }

-----------------------------------------------------------------------------
(* Results and history events of send_nro_file *)

Ok == [ok |-> TRUE, kind |-> "ok", variant |-> "", code |-> 0]

\* an io::Error of the transport (connect, read, write) or of the file reader
IoErr == [ok |-> FALSE, kind |-> "io", variant |-> "", code |-> 0]

\* io::Error::new(ErrorKind::Other, e) for a SendNroError e
PeerErr(e) == [ok |-> FALSE, kind |-> "SendNroError", variant |-> e.variant, code |-> e.code]

\* io::Error::new(ErrorKind::Other, "Unknown error")
MsgErr(text) == [ok |-> FALSE, kind |-> "message", variant |-> text, code |-> 0]

ConnectEv == [op |-> "connect", bytes |-> <<>>]
W(bytes) == [op |-> "write", bytes |-> bytes]
R(bytes) == [op |-> "read", bytes |-> bytes]

\* faulty variant of LogWrite: one `write` in place of write_all, which takes
\* the first byte and leaves the rest unwritten
LogWriteOnce(log, bytes) ==
    IF bytes = <<>> THEN log ELSE Append(log, W(SubSeq(bytes, 1, 1)))

\* a write of no bytes leaves nothing on the connection
LogWrite(log, bytes) == IF bytes = <<>> THEN log ELSE Append(log, W(bytes))

\* how much of a failing write_all may already have been written
PartialLens(n) == {0} \cup (IF n > 1 THEN {n - 1} ELSE {})

-----------------------------------------------------------------------------
(* Pure parts of loader/send.rs *)

\* faulty variant of SendNroErrorFrom: the arm of -3 is missing
SendNroErrorFromNoExt(value) ==
    CASE value = -1 -> [variant |-> "CouldNotCreateFile", code |-> 0]
      [] value = -2 -> [variant |-> "InsufficientSpace", code |-> 0]
      [] OTHER      -> [variant |-> "UnknownError", code |-> value]

\* impl From<i32> for SendNroError
SendNroErrorFrom(value) ==
    CASE value = -1 -> [variant |-> "CouldNotCreateFile", code |-> 0]
      [] value = -2 -> [variant |-> "InsufficientSpace", code |-> 0]
      [] value = -3 -> [variant |-> "FileExtensionNotRecognized", code |-> 0]
      [] OTHER      -> [variant |-> "UnknownError", code |-> value]

\* faulty variant of HandshakeAck: the arm `0 => Ok(())` is missing, and every
\* code is converted
HandshakeAckNoZeroArm(rc) == PeerErr(SendNroErrorFrom(rc))

\* faulty variant of HandshakeAck: only the negative codes reject
HandshakeAckNegative(rc) == IF rc >= 0 THEN Ok ELSE PeerErr(SendNroErrorFrom(rc))

\* send_file_name_and_length: `match rc { 0 => Ok(()), _ => Err(..from(rc)) }`
HandshakeAck(rc) == IF rc = 0 THEN Ok ELSE PeerErr(SendNroErrorFrom(rc))

\* faulty variant of DataAck: the code is classified as the handshake's is
DataAckClassified(rc) == IF rc = 0 THEN Ok ELSE PeerErr(SendNroErrorFrom(rc))

\* faulty variant of DataAck: the code is read and not looked at
DataAckIgnored(rc) == Ok

\* compress_and_send_nro_file_data: `if rc != 0 { return Err("Unknown error") }`
DataAck(rc) == IF rc # 0 THEN MsgErr("Unknown error") ELSE Ok

\* send_nro_args: the test that makes the loop break,
\* `cmd_buf.position() + arg_bytes.len() + 1 > MAX_CMD_BUF_SIZE`
ArgTooLong(position, arg_len) == position + arg_len + 1 > MAX_CMD_BUF_SIZE

\* Cursor<[u8; MAX_CMD_BUF_SIZE]>::write_all: the bytes that fit are written;
\* when some do not fit the write fails (WriteZero)
CursorWriteAll(cur, bytes) ==
    LET room == MAX_CMD_BUF_SIZE - Len(cur.buf)
    IN IF ~cur.ok THEN cur
       ELSE [buf |-> cur.buf \o SubSeq(bytes, 1, Min(Len(bytes), room)),
             ok  |-> Len(bytes) <= room]

\* faulty variant of CmdBufLoop: no test before the writes, and what does not
\* fit is cut off silently
RECURSIVE CmdBufLoopUnchecked(_, _, _)
CmdBufLoopUnchecked(args, i, cur) ==
    IF i > Len(args) THEN cur
    ELSE CmdBufLoopUnchecked(args, i + 1,
            [buf |-> SubSeq((cur.buf \o args[i]) \o <<0>>, 1,
                            Min(Len(cur.buf) + Len(args[i]) + 1, MAX_CMD_BUF_SIZE)),
             ok  |-> TRUE])

\* faulty variant of CmdBufLoop: `continue` where the code has `break`
RECURSIVE CmdBufLoopContinue(_, _, _)
CmdBufLoopContinue(args, i, cur) ==
    IF i > Len(args) \/ ~cur.ok THEN cur
    ELSE IF ArgTooLong(Len(cur.buf), Len(args[i]))
         THEN CmdBufLoopContinue(args, i + 1, cur)
    ELSE CmdBufLoopContinue(args, i + 1, CursorWriteAll(CursorWriteAll(cur, args[i]), <<0>>))

\* send_nro_args: the loop over the arguments from the i-th on; cur.buf is the
\* written part of cmd_buf, cmd_buf[..position], cur.ok is FALSE once a `?` has
\* returned an error
RECURSIVE CmdBufLoop(_, _, _)
CmdBufLoop(args, i, cur) ==
    IF i > Len(args) \/ ~cur.ok THEN cur
    ELSE IF ArgTooLong(Len(cur.buf), Len(args[i])) THEN cur            \* break
    ELSE CmdBufLoop(args, i + 1, CursorWriteAll(CursorWriteAll(cur, args[i]), <<0>>))

\* send_nro_args: cmd_buf after the loop
CmdBuf(args) == CmdBufLoop(args, 1, [buf |-> <<>>, ok |-> TRUE])

\* how many bytes one encoder.read(&mut buf) may return when k are left:
\* at most the buffer, at least one, and not always all that is available
ReadLens(k) ==
    {Min(k, MAX_FILE_CHUNK_SIZE)}
    \cup (IF short_reads < MaxShortReads /\ k > 1 THEN {1} ELSE {})

\* faulty variant of StreamEnded: `if read_len == 0 { break; }` is missing, and
\* a read of no bytes is framed as any other
StreamEndedNever == FALSE

\* faulty variant of StreamEnded: the loop also ends once as many bytes of the
\* file were consumed as file_length declares
StreamEndedAtDeclared ==
    zrest = <<>> \/ total_in >= FromLE32(AsU32Bytes(file_length))

\* encoder.read returns 0, and the loop breaks: the encoder has nothing left
StreamEnded == zrest = <<>>

\* encoder.total_in() after a read that leaves rest_len bytes of the stream
\* unread: the checksum ends the stream, so all of the file was consumed when
\* nothing is left; before that the encoder has consumed as much of the file
\* as the library chose, between nothing more and all of it
TotalIn(rest_len) ==
    IF rest_len = 0 THEN {Len(file_data)} ELSE {total_in, Len(file_data)}

\* faulty variant of AfterFrame: the loop is left after its first data frame
AfterFrameOneChunk(site) ==
    CASE site = "name"  -> "file_len"
      [] site = "chunk" -> "data_ack"
      [] site = "args"  -> "return"

\* faulty variant of AfterFrame: every data frame is followed by the wait for
\* an acknowledgement, made by the code that waits for the first one
AfterFrameAckPerChunk(site) ==
    CASE site = "name"  -> "file_len"
      [] site = "chunk" -> "hs_ack"
      [] site = "args"  -> "return"

\* faulty variant of AfterFrame: an acknowledgement is awaited after the
\* argument frame as after the data frames
AfterFrameAwaitsAck(site) ==
    CASE site = "name"  -> "file_len"
      [] site = "chunk" -> "enc_read"
      [] site = "args"  -> "data_ack"

\* where write_length_prefixed returns to
AfterFrame(site) ==
    CASE site = "name"  -> "file_len"     \* send_file_name_and_length goes on
      [] site = "chunk" -> "enc_read"     \* the loop of compress_and_send_nro_file_data
      [] site = "args"  -> "return"       \* send_nro_args and send_nro_file return Ok(())

-----------------------------------------------------------------------------
(* send_nro_file: one action for each await *)

SendStart(i) ==
        /\ file_name = i.name
        /\ file_length = i.len
        /\ cmd_args = i.args
        /\ file_data = i.data
        /\ zstream = i.z
        /\ zrest = i.z
        /\ short_reads = 0
        /\ s_pc = "connect"
        /\ s_site = "none"
        /\ s_frame = <<>>
        /\ s_log = <<>>
        /\ s_result = NoResult
        /\ rx = <<>>
        /\ peer_sent = 0
        /\ total_in = 0
        /\ prev_in = 0
        /\ delivered = 0

\* send_nro_file is not running (the specifications of the other operations)
SendOff ==
    /\ file_name = <<>>
    /\ file_length = USize(0, 0)
    /\ cmd_args = <<>>
    /\ file_data = <<>>
    /\ zstream = <<>>
    /\ zrest = <<>>
    /\ short_reads = 0
    /\ s_pc = "off"
    /\ s_site = "none"
    /\ s_frame = <<>>
    /\ s_log = <<>>
    /\ s_result = NoResult
    /\ rx = <<>>
    /\ peer_sent = 0
    /\ total_in = 0
    /\ prev_in = 0
    /\ delivered = 0

s_inputs == <<file_name, file_length, cmd_args, file_data, zstream>>

\* faulty variant of Return: after an error the call starts over, with a new
\* connection
ReturnRetries(res) ==
    IF res.ok
    THEN s_result' = res /\ s_pc' = "done"
    ELSE s_result' = s_result /\ s_pc' = "connect"

\* faulty variant of AckReadErr: the read of an acknowledgement is given a
\* time limit, and fails when it elapses
AckReadTimedOut == MsgErr("deadline has elapsed")

\* stream.read_i32_le().await? on an Err: the error of the connection, the
\* only one this await can end with
AckReadErr == IoErr

\* `?` on an Err: send_nro_file returns it
Return(res) ==
    /\ s_result' = res
    /\ s_pc' = "done"

\* a write_all (or write_u32_le) of `bytes` fails, after some of them were written
WriteFails(bytes) ==
    /\ bytes # <<>>
    /\ \E k \in PartialLens(Len(bytes)) :
          s_log' = LogWrite(s_log, SubSeq(bytes, 1, k))
    /\ Return(IoErr)

\* TcpStream::connect(dst).await?, then send_file_name_and_length calls
\* write_length_prefixed(stream, file_name)
connect ==
    /\ s_pc = "connect"
    /\ \/ /\ s_log' = Append(s_log, ConnectEv)
          /\ s_pc' = "wlp_len"
          /\ s_site' = "name"
          /\ s_frame' = file_name
          /\ UNCHANGED s_result
       \/ /\ Return(IoErr)
          /\ UNCHANGED <<s_log, s_site, s_frame>>
    /\ UNCHANGED <<s_inputs, zrest, short_reads, rx, peer_sent>>
    /\ UNCHANGED <<enc_vars, s_rest>>

\* write_length_prefixed: stream.write_u32_le(data.len() as u32).await?
write_length_prefixed_len ==
    /\ s_pc = "wlp_len"
    /\ \/ /\ s_log' = LogWrite(s_log, LE32(Len(s_frame)))
          /\ s_pc' = "wlp_data"
          /\ UNCHANGED s_result
       \/ WriteFails(LE32(Len(s_frame)))
    /\ UNCHANGED <<s_inputs, zrest, short_reads, s_site, s_frame, rx, peer_sent>>
    /\ UNCHANGED <<enc_vars, s_rest>>

\* write_length_prefixed: stream.write_all(data).await?; Ok(()), and the caller
\* goes on; after the argument frame send_nro_file returns Ok(())
write_length_prefixed_data ==
    /\ s_pc = "wlp_data"
    /\ \/ /\ s_log' = LogWrite(s_log, s_frame)
          /\ IF AfterFrame(s_site) = "return"
             THEN Return(Ok)
             ELSE /\ s_pc' = AfterFrame(s_site)
                  /\ UNCHANGED s_result
       \/ WriteFails(s_frame)
    /\ UNCHANGED <<s_inputs, zrest, short_reads, s_site, s_frame, rx, peer_sent>>
    /\ UNCHANGED <<enc_vars, s_rest>>

\* send_file_name_and_length: stream.write_u32_le(file_length as u32).await?
write_file_length ==
    /\ s_pc = "file_len"
    /\ \/ /\ s_log' = LogWrite(s_log, AsU32Bytes(file_length))
          /\ s_pc' = "hs_ack"
          /\ UNCHANGED s_result
       \/ WriteFails(AsU32Bytes(file_length))
    /\ UNCHANGED <<s_inputs, zrest, short_reads, s_site, s_frame, rx, peer_sent>>
    /\ UNCHANGED <<enc_vars, s_rest>>

\* send_file_name_and_length: let rc = stream.read_i32_le().await?; match rc
read_handshake_ack ==
    /\ s_pc = "hs_ack"
    /\ \/ /\ Len(rx) >= 4
          /\ rx' = SubSeq(rx, 5, Len(rx))
          /\ s_log' = Append(s_log, R(SubSeq(rx, 1, 4)))
          /\ LET res == HandshakeAck(I32FromLE(SubSeq(rx, 1, 4)))
             IN IF res.ok
                THEN /\ s_pc' = "enc_read"
                     /\ UNCHANGED s_result
                ELSE Return(res)
       \/ /\ Return(AckReadErr)
          /\ UNCHANGED <<rx, s_log>>
    /\ UNCHANGED <<s_inputs, zrest, short_reads, s_site, s_frame, peer_sent>>
    /\ UNCHANGED <<enc_vars, s_rest>>

\* compress_and_send_nro_file_data, the head of the loop:
\* let read_len = encoder.read(&mut buf)?; if read_len == 0 { break; }
\* write_length_prefixed(stream, &buf[..read_len])
encoder_read ==
    /\ s_pc = "enc_read"
    /\ \/ /\ StreamEnded
          /\ s_pc' = "data_ack"
          /\ UNCHANGED <<enc_vars, zrest, short_reads, s_site, s_frame, s_result>>
       \/ /\ ~StreamEnded
          /\ \E read_len \in ReadLens(Len(zrest)) :
                /\ s_frame' = SubSeq(zrest, 1, read_len)
                /\ zrest' = SubSeq(zrest, read_len + 1, Len(zrest))
                /\ short_reads' = IF read_len < Min(Len(zrest), MAX_FILE_CHUNK_SIZE)
                                  THEN short_reads + 1 ELSE short_reads
                /\ total_in' \in TotalIn(Len(zrest) - read_len)
          /\ prev_in' = total_in
          /\ s_site' = "chunk"
          /\ s_pc' = "wlp_len"
          /\ UNCHANGED s_result
       \/ /\ Return(IoErr)      \* the file reader fails
          /\ UNCHANGED <<enc_vars, zrest, short_reads, s_site, s_frame>>
    /\ UNCHANGED <<s_inputs, s_log, rx, peer_sent>>
    /\ UNCHANGED s_rest

\* compress_and_send_nro_file_data: let rc = stream.read_i32_le().await?;
\* if rc != 0 { return Err(..) }; Ok(()), and send_nro_file calls send_nro_args
read_data_ack ==
    /\ s_pc = "data_ack"
    /\ \/ /\ Len(rx) >= 4
          /\ rx' = SubSeq(rx, 5, Len(rx))
          /\ s_log' = Append(s_log, R(SubSeq(rx, 1, 4)))
          /\ LET res == DataAck(I32FromLE(SubSeq(rx, 1, 4)))
             IN IF res.ok
                THEN /\ s_pc' = "send_nro_args"
                     /\ UNCHANGED s_result
                ELSE Return(res)
       \/ /\ Return(AckReadErr)
          /\ UNCHANGED <<rx, s_log>>
    /\ UNCHANGED <<s_inputs, zrest, short_reads, s_site, s_frame, peer_sent>>
    /\ UNCHANGED <<enc_vars, s_rest>>

\* send_nro_args, up to its await: the loop fills cmd_buf, then
\* write_length_prefixed(stream, &cmd_buf[..cmd_buf_len]) is called
send_nro_args ==
    /\ s_pc = "send_nro_args"
    /\ IF CmdBuf(cmd_args).ok
       THEN /\ s_frame' = CmdBuf(cmd_args).buf
            /\ s_site' = "args"
            /\ s_pc' = "wlp_len"
            /\ UNCHANGED s_result
       ELSE /\ Return(IoErr)      \* cmd_buf.write_all(..)?
            /\ UNCHANGED <<s_site, s_frame>>
    /\ UNCHANGED <<s_inputs, zrest, short_reads, s_log, rx, peer_sent>>
    /\ UNCHANGED <<enc_vars, s_rest>>

\* the peer writes an acknowledgement code on the connection, at any time
\* while the client holds it open
peer_send ==
    /\ s_pc \notin {"off", "connect", "done"}
    /\ peer_sent < MaxPeerAcks
    /\ Len(rx) < 4 * MaxPending
    /\ \E c \in AckCodes : rx' = rx \o I32ToLE(c)
    /\ peer_sent' = peer_sent + 1
    /\ UNCHANGED <<s_inputs, zrest, short_reads, s_pc, s_site, s_frame, s_log, s_result>>
    /\ UNCHANGED <<enc_vars, s_rest>>

\* every byte the calls of write_u32_le and write_all have handed to the socket
AllWritten ==
    LET RECURSIVE Upto(_)
        Upto(j) == IF j = 0 THEN <<>>
                   ELSE IF s_log[j].op = "write" THEN Upto(j - 1) \o s_log[j].bytes
                   ELSE Upto(j - 1)
    IN Upto(Len(s_log))

\* the transport carries to the peer some of the bytes the client has written
\* and the peer has not yet got; a write returns when the socket has taken the
\* bytes, which is before this
deliver ==
    /\ s_pc # "off"
    /\ delivered < Len(AllWritten)
    /\ delivered' \in {delivered + 1, Len(AllWritten)}
    /\ UNCHANGED <<s_inputs, zrest, short_reads, s_pc, s_site, s_frame, s_log, s_result,
                   rx, peer_sent>>
    /\ UNCHANGED <<enc_vars, disc_vars, other_vars, stdio_vars, link_vars>>

SendNext ==
    \/ connect
    \/ write_length_prefixed_len
    \/ write_length_prefixed_data
    \/ write_file_length
    \/ read_handshake_ack
    \/ encoder_read
    \/ read_data_ack
    \/ send_nro_args
    \/ peer_send

\* send_nro_args alone, called with an argument list on an open connection
ArgsStart(a) ==
    /\ file_name = <<>>
    /\ file_length = USize(0, 0)
    /\ cmd_args = a
    /\ file_data = <<>>
    /\ zstream = <<>>
    /\ zrest = <<>>
    /\ short_reads = 0
    /\ s_pc = "send_nro_args"
    /\ s_site = "none"
    /\ s_frame = <<>>
    /\ s_log = <<>>
    /\ s_result = NoResult
    /\ rx = <<>>
    /\ peer_sent = 0
    /\ total_in = 0
    /\ prev_in = 0
    /\ delivered = 0

ArgsNext ==
    \/ send_nro_args
    \/ write_length_prefixed_len
    \/ write_length_prefixed_data

-----------------------------------------------------------------------------
(* discover (loader/discovery.rs) *)

PING_MESSAGE == <<110, 120, 98, 111, 111, 116>>      \* b"nxboot"

PONG_MESSAGE == <<98, 111, 111, 116, 110, 120>>      \* b"bootnx"

\* the length of `let mut buf = [0u8; 0x10]` in recv_pong_response
RecvBufLen == 16

\* largest timeout tried, in clock ticks
MaxTimeout == 2

\* largest number of attempts tried
MaxRetries == 3

\* number of datagrams that may reach receive_socket during one call
MaxDatagrams == 2

\* number of probes the second of two concurrent calls may send
MaxOtherProbes == 1

Senders == {"192.168.1.7", "192.168.1.9"}

\* payloads of the datagrams that may arrive: the reply, the reply followed by
\* more bytes than the receive buffer holds, the probe itself, and a reply cut
\* short
DatagramPayloads ==
    { PONG_MESSAGE,
      PONG_MESSAGE \o Fill(RecvBufLen - Len(PONG_MESSAGE) + 1, 33),
      PING_MESSAGE,
      SubSeq(PONG_MESSAGE, 1, 5) }

Datagrams == [payload : DatagramPayloads, src : Senders]

NoDResult == [ok |-> FALSE, kind |-> "none", cause |-> "", ip |-> ""]

\* Ok(Some(ip_addr))
Found(ip) == [ok |-> TRUE, kind |-> "Some", cause |-> "", ip |-> ip]

\* Ok(None)
NotFound == [ok |-> TRUE, kind |-> "None", cause |-> "", ip |-> ""]

\* Err(io::Error): kind names the DiscoveryError wrapper, when there is one, and
\* cause the error inside it
DiscErr(kind, cause) == [ok |-> FALSE, kind |-> kind, cause |-> cause, ip |-> ""]

\* Err(Elapsed) of tokio::time::timeout
Elapsed == [ok |-> FALSE, kind |-> "Elapsed", cause |-> "", ip |-> ""]

\* socket.recv_from(&mut buf): the buffer after a datagram was received into it
RecvBuf(payload) ==
    [i \in 1..RecvBufLen |-> IF i <= Len(payload) THEN payload[i] ELSE 0]

\* socket.recv_from(&mut buf): the length it returns
RecvLen(payload) == Min(Len(payload), RecvBufLen)

\* faulty variant of IsPong: the reply is taken to be the probe, sent back
IsPongEcho(payload) ==
    /\ RecvLen(payload) >= Len(PING_MESSAGE)
    /\ SubSeq(RecvBuf(payload), 1, Len(PING_MESSAGE)) = PING_MESSAGE

\* faulty variant of IsPong: a reply followed by more bytes is turned down
IsPongExact(payload) ==
    /\ RecvLen(payload) = Len(PONG_MESSAGE)
    /\ SubSeq(RecvBuf(payload), 1, Len(PONG_MESSAGE)) = PONG_MESSAGE

\* recv_pong_response:
\* `len >= PING_MESSAGE.len() && &buf[0..PONG_MESSAGE.len()] == PONG_MESSAGE`
IsPong(payload) ==
    /\ RecvLen(payload) >= Len(PING_MESSAGE)
    /\ SubSeq(RecvBuf(payload), 1, Len(PONG_MESSAGE)) = PONG_MESSAGE

\* faulty variant of LoopRange: the body runs once before retries is looked at
LoopRangeAtLeastOnce(n) == IF n = 0 THEN {0} ELSE 0..(n - 1)

\* faulty variant of LoopRange: `0..=retries`
LoopRangeInclusive(n) == 0..n

\* `for attempt in 0..retries`: the values of the loop variable
LoopRange(n) == 0..(n - 1)

DiscStart(t, r) ==
    /\ timeout = t
    /\ retries = r
    /\ d_pc = "bind_broadcast"
    /\ attempt = 0
    /\ now = 0
    /\ deadline = 0
    /\ inbox = <<>>
    /\ arrived = 0
    /\ probes = 0
    /\ windows = 0
    /\ io_failures = 0
    /\ received = <<>>
    /\ d_result = NoDResult

d_inputs == <<timeout, retries>>

d_history == <<probes, windows, io_failures, received>>

\* discover returns res
DReturn(res) ==
    /\ d_result' = res
    /\ d_pc' = "done"
    /\ UNCHANGED <<attempt, deadline>>

\* the loop goes to attempt a: its body runs timeout(timeout, ping_fut), or
\* the loop is over and discover returns Ok(None)
LoopTo(a) ==
    IF a \in LoopRange(retries)
    THEN /\ attempt' = a
         /\ deadline' = now + timeout
         /\ d_pc' = "send_ping"
         /\ UNCHANGED d_result
    ELSE /\ attempt' = a
         /\ DReturn(NotFound)!1
         /\ DReturn(NotFound)!2
         /\ UNCHANGED deadline

\* faulty variant of OnAttempt: after a malformed datagram the attempt goes on
\* receiving until its timer fires
OnAttemptWaitsOut(res) ==
    IF res.ok THEN DReturn(res)
    ELSE IF res.cause = "InvalidResponse"
         THEN UNCHANGED <<d_pc, attempt, deadline, d_result>>
    ELSE IF res.kind # "Elapsed" /\ attempt + 1 = retries
         THEN DReturn(res)
    ELSE LoopTo(attempt + 1)

\* the match on what timeout(timeout, ping_fut).await returned
OnAttempt(res) ==
    IF res.ok THEN DReturn(res)                                  \* return Ok(Some(ip_addr))
    ELSE IF res.kind # "Elapsed" /\ attempt + 1 = retries
         THEN DReturn(res)                                       \* return Err(err)
    ELSE LoopTo(attempt + 1)                                     \* continue

\* UdpSocket::bind("0.0.0.0:0").await?
bind_broadcast_socket ==
    /\ d_pc = "bind_broadcast"
    /\ \/ /\ d_pc' = "set_broadcast"
          /\ UNCHANGED <<attempt, deadline, d_result>>
       \/ DReturn(DiscErr("", "io"))
    /\ UNCHANGED <<d_inputs, now, inbox, arrived, d_history>>
    /\ UNCHANGED d_rest

\* broadcast_socket.set_broadcast(true)?
set_broadcast ==
    /\ d_pc = "set_broadcast"
    /\ \/ /\ d_pc' = "bind_receive"
          /\ UNCHANGED <<attempt, deadline, d_result>>
       \/ DReturn(DiscErr("", "io"))
    /\ UNCHANGED <<d_inputs, now, inbox, arrived, d_history>>
    /\ UNCHANGED d_rest

\* this call holds receive_socket, bound to port 28771: from the bind to the
\* return, which drops the socket
HoldsPort == d_pc \in {"send_ping", "recv_pong"}

\* the second call holds its receive_socket
OtherHoldsPort == o_pc = "loop"

\* faulty variant of CanBind: the socket is bound with address reuse
CanBindReuse(held) == TRUE

\* UdpSocket::bind(RECEIVE_ADDR) sets no option on the socket: it can succeed
\* only while no other socket is bound to port 28771
CanBind(held) == ~held

\* UdpSocket::bind(RECEIVE_ADDR).await?, and the loop is entered
bind_receive_socket ==
    /\ d_pc = "bind_receive"
    /\ \/ CanBind(OtherHoldsPort) /\ LoopTo(0)
       \/ DReturn(DiscErr("", "io"))
    /\ UNCHANGED <<d_inputs, now, inbox, arrived, d_history>>
    /\ UNCHANGED d_rest

\* ping_fut: send_ping_message(&broadcast_socket, BROADCAST_ADDR).await
send_ping_message ==
    /\ d_pc = "send_ping"
    /\ \/ /\ probes' = probes + 1
          /\ d_pc' = "recv_pong"
          /\ UNCHANGED <<attempt, deadline, d_result, io_failures>>
       \/ /\ io_failures' = io_failures + 1
          /\ OnAttempt(DiscErr("SendPingFailed", "io"))
          /\ UNCHANGED probes
    /\ UNCHANGED <<d_inputs, now, inbox, arrived, windows, received>>
    /\ UNCHANGED d_rest

\* ping_fut: recv_pong_response(&receive_socket).await completes
recv_pong_response ==
    /\ d_pc = "recv_pong"
    /\ \/ /\ inbox # <<>>
          /\ inbox' = Tail(inbox)
          /\ received' = Append(received, Head(inbox))
          /\ IF IsPong(Head(inbox).payload)
             THEN OnAttempt(Found(Head(inbox).src))
             ELSE OnAttempt(DiscErr("RecvPongFailed", "InvalidResponse"))
          /\ UNCHANGED io_failures
       \/ /\ io_failures' = io_failures + 1
          /\ OnAttempt(DiscErr("RecvPongFailed", "io"))
          /\ UNCHANGED <<inbox, received>>
    /\ UNCHANGED <<d_inputs, now, arrived, probes, windows>>
    /\ UNCHANGED d_rest

\* faulty variant of RecvPending: the timer is looked at before the socket
RecvPendingAlways(queue) == TRUE

\* timeout(timeout, ping_fut) polls ping_fut before its timer: the timer ends
\* the attempt only when recv_from is pending, no datagram being queued on
\* receive_socket
RecvPending(queue) == queue = <<>>

\* the timer of tokio::time::timeout fires while recv_from is pending
timeout_elapsed ==
    /\ d_pc = "recv_pong"
    /\ now = deadline
    /\ RecvPending(inbox)
    /\ windows' = windows + 1
    /\ OnAttempt(Elapsed)
    /\ UNCHANGED <<d_inputs, now, inbox, arrived, probes, io_failures, received>>
    /\ UNCHANGED d_rest

\* time passes while recv_from is pending and the timer has not fired
tick ==
    /\ d_pc = "recv_pong"
    /\ now < deadline
    /\ now' = now + 1
    /\ UNCHANGED <<d_inputs, d_pc, attempt, deadline, inbox, arrived, d_history, d_result>>
    /\ UNCHANGED d_rest

\* a datagram reaches port 28771 while receive_socket is bound
datagram_arrives ==
    /\ d_pc \in {"send_ping", "recv_pong"}
    /\ arrived < MaxDatagrams
    /\ \E d \in Datagrams : inbox' = Append(inbox, d)
    /\ arrived' = arrived + 1
    /\ UNCHANGED <<d_inputs, d_pc, attempt, now, deadline, d_history, d_result>>
    /\ UNCHANGED d_rest

\* the second call: its two bind calls and set_broadcast, each with `?`
other_bind_broadcast_socket ==
    /\ o_pc = "bind_broadcast"
    /\ \/ o_pc' = "set_broadcast" /\ UNCHANGED o_result
       \/ o_pc' = "done" /\ o_result' = DiscErr("", "io")
    /\ UNCHANGED <<o_probes, disc_vars, send_vars, stdio_vars, link_vars>>

other_set_broadcast ==
    /\ o_pc = "set_broadcast"
    /\ \/ o_pc' = "bind_receive" /\ UNCHANGED o_result
       \/ o_pc' = "done" /\ o_result' = DiscErr("", "io")
    /\ UNCHANGED <<o_probes, disc_vars, send_vars, stdio_vars, link_vars>>

other_bind_receive_socket ==
    /\ o_pc = "bind_receive"
    /\ \/ CanBind(HoldsPort) /\ o_pc' = "loop" /\ UNCHANGED o_result
       \/ /\ o_pc' = "done"
          /\ o_result' = DiscErr("", IF HoldsPort THEN "AddrInUse" ELSE "io")
    /\ UNCHANGED <<o_probes, disc_vars, send_vars, stdio_vars, link_vars>>

\* the second call in its loop: it sends a probe
other_send_ping_message ==
    /\ o_pc = "loop"
    /\ o_probes < MaxOtherProbes
    /\ o_probes' = o_probes + 1
    /\ UNCHANGED <<o_pc, o_result, disc_vars, send_vars, stdio_vars, link_vars>>

\* the second call returns from its loop, which drops its sockets
other_returns ==
    /\ o_pc = "loop"
    /\ o_pc' = "done"
    /\ o_result' \in {NotFound, DiscErr("RecvPongFailed", "io")} \cup {Found(ip) : ip \in Senders}
    /\ UNCHANGED <<o_probes, disc_vars, send_vars, stdio_vars, link_vars>>

OtherSteps ==
    \/ other_bind_broadcast_socket
    \/ other_set_broadcast
    \/ other_bind_receive_socket
    \/ other_send_ping_message
    \/ other_returns

\* the steps of discover itself
DiscSteps ==
    \/ bind_broadcast_socket
    \/ set_broadcast
    \/ bind_receive_socket
    \/ send_ping_message
    \/ recv_pong_response
    \/ timeout_elapsed
    \/ tick

DiscNext ==
    \/ bind_broadcast_socket
    \/ set_broadcast
    \/ bind_receive_socket
    \/ send_ping_message
    \/ recv_pong_response
    \/ timeout_elapsed
    \/ tick
    \/ datagram_arrives

-----------------------------------------------------------------------------
(* start_server and handle_stream (stdio.rs) *)

\* the length of `let mut buffer = [0u8; 1024]` in handle_stream
BufferLen == 1024

\* number of writes the clients make on their connections
MaxSends == 2

\* the clients that may connect to the listener
Clients == {1, 2}

\* n bytes that differ from place to place and from client to client
Ramp(n, c) == [i \in 1..n |-> (i + 100 * c) % 251]

\* what a client may write at once: "hello\n" (with the client's number before
\* the line feed, for the second client) or more than the buffer holds
Chunks(c) ==
    { IF c = 1 THEN <<104, 101, 108, 108, 111, 10>>
               ELSE <<104, 101, 108, 108, 111, 48 + c, 10>>,
      Ramp(BufferLen + 1, c) }

NoStResult == [ok |-> FALSE, site |-> "none"]

\* Ok(())
StOk == [ok |-> TRUE, site |-> ""]

\* Err(err), err the io::Error of the call named by site
StErr(site) == [ok |-> FALSE, site |-> site]

\* stream.read(&mut buffer): the buffer after data was read into it
ReadInto(buf, data) ==
    [i \in 1..Len(buf) |-> IF i <= Len(data) THEN data[i] ELSE buf[i]]

\* stream.read(&mut buffer): how many of k readable bytes one read may return
StReadLens(k) ==
    {Min(k, BufferLen)}
    \cup (IF st_short < MaxShortReads /\ k > 1 THEN {1} ELSE {})

\* faulty variant of Forwarded: the whole buffer is written
ForwardedWhole(buf, len) == buf

\* `&buffer[..len]`, the argument of write_all
Forwarded(buf, len) == SubSeq(buf, 1, len)

\* faulty variant of MatchRead: a failed read ends the loop like a closed
\* connection
MatchReadErrBreaks(r) ==
    IF ~r.ok THEN "break"
    ELSE IF r.len = 0 THEN "break"
    ELSE "write_all"

\* handle_stream: the arm of `match stream.read(&mut buffer).await` that runs
MatchRead(r) ==
    IF ~r.ok THEN "return_err"                \* Err(err) => return Err(err)
    ELSE IF r.len = 0 THEN "break"            \* Ok(0) => break
    ELSE "write_all"                          \* Ok(len) => write_all(&buffer[..len])

\* faulty variant of AfterHandleStream: after an orderly close the server
\* accepts the next connection
AfterHandleStreamAcceptAgain(res) == IF res.ok THEN "accept" ELSE "done"

\* start_server: `handle_stream(stream).await` is its last expression, so
\* start_server returns what handle_stream returns
AfterHandleStream(res) == "done"

StdioStart ==
    /\ st_pc = "bind"
    /\ backlog = <<>>
    /\ conn = 0
    /\ c_state = [c \in Clients |-> "idle"]
    /\ c_sent = [c \in Clients |-> <<>>]
    /\ sends = 0
    /\ consumed = 0
    /\ buffer = Fill(BufferLen, 0)
    /\ st_len = 0
    /\ st_short = 0
    /\ st_out = <<>>
    /\ accepts = 0
    /\ zero_reads = 0
    /\ st_result = NoStResult

\* start_server is not running (the specifications of the other operations)
StdioOff ==
    /\ st_pc = "off"
    /\ backlog = <<>>
    /\ conn = 0
    /\ c_state = [c \in Clients |-> "idle"]
    /\ c_sent = [c \in Clients |-> <<>>]
    /\ sends = 0
    /\ consumed = 0
    /\ buffer = <<>>
    /\ st_len = 0
    /\ st_short = 0
    /\ st_out = <<>>
    /\ accepts = 0
    /\ zero_reads = 0
    /\ st_result = NoStResult

c_vars == <<backlog, c_state, c_sent, sends>>

\* `?` on an Err in start_server: it returns the error
StReturn(res) ==
    /\ st_result' = res
    /\ st_pc' = "done"

\* handle_stream returns res, and start_server with it
HandleStreamReturns(res) ==
    /\ st_result' = res
    /\ st_pc' = AfterHandleStream(res)

\* the listener is bound: from the bind to the return of start_server
Listening == st_pc \in {"accept", "peer_addr", "read", "write_all"}

\* TcpListener::bind(&addr).await?
bind ==
    /\ st_pc = "bind"
    /\ \/ /\ st_pc' = "accept"
          /\ UNCHANGED st_result
       \/ StReturn(StErr("bind"))
    /\ UNCHANGED <<c_vars, conn, consumed, buffer, st_len, st_short, st_out,
                   accepts, zero_reads>>
    /\ UNCHANGED st_rest

\* let (stream, _) = listener.accept().await?
accept ==
    /\ st_pc = "accept"
    /\ \/ /\ backlog # <<>>
          /\ conn' = Head(backlog)
          /\ backlog' = Tail(backlog)
          /\ consumed' = 0
          /\ accepts' = accepts + 1
          /\ st_pc' = "peer_addr"
          /\ UNCHANGED st_result
       \/ /\ StReturn(StErr("accept"))
          /\ UNCHANGED <<backlog, conn, consumed, accepts>>
    /\ UNCHANGED <<c_state, c_sent, sends, buffer, st_len, st_short, st_out, zero_reads>>
    /\ UNCHANGED st_rest

\* tracing::debug!("connection accepted from {}", stream.peer_addr()?), then
\* handle_stream(stream) is called: `let mut buffer = [0u8; 1024]`
peer_addr ==
    /\ st_pc = "peer_addr"
    /\ \/ /\ st_pc' = "read"
          /\ buffer' = Fill(BufferLen, 0)
          /\ UNCHANGED st_result
       \/ /\ StReturn(StErr("peer_addr"))
          /\ UNCHANGED buffer
    /\ UNCHANGED <<c_vars, conn, consumed, st_len, st_short, st_out, accepts, zero_reads>>
    /\ UNCHANGED st_rest

\* the bytes of the accepted connection that no read has returned yet
Unread == SubSeq(c_sent[conn], consumed + 1, Len(c_sent[conn]))

\* handle_stream: `match stream.read(&mut buffer).await`
stream_read ==
    /\ st_pc = "read"
    /\ \/ /\ Unread # <<>>
          /\ \E len \in StReadLens(Len(Unread)) :
                /\ MatchRead([ok |-> TRUE, len |-> len]) = "write_all"
                /\ buffer' = ReadInto(buffer, SubSeq(Unread, 1, len))
                /\ st_len' = len
                /\ consumed' = consumed + len
                /\ st_short' = IF len < Min(Len(Unread), BufferLen)
                               THEN st_short + 1 ELSE st_short
          /\ st_pc' = "write_all"
          /\ UNCHANGED <<zero_reads, st_result>>
       \/ /\ Unread = <<>>
          /\ c_state[conn] = "closed"
          /\ MatchRead([ok |-> TRUE, len |-> 0]) = "break"
          /\ zero_reads' = zero_reads + 1
          /\ HandleStreamReturns(StOk)                        \* break; Ok(())
          /\ UNCHANGED <<buffer, st_len, consumed, st_short>>
       \/ /\ IF MatchRead([ok |-> FALSE, len |-> 0]) = "return_err"
             THEN HandleStreamReturns(StErr("read"))          \* return Err(err)
             ELSE HandleStreamReturns(StOk)
          /\ UNCHANGED <<buffer, st_len, consumed, st_short, zero_reads>>
    /\ UNCHANGED <<c_vars, conn, st_out, accepts>>
    /\ UNCHANGED st_rest

\* handle_stream: io::stdout().write_all(&buffer[..len]).await?
stdout_write_all ==
    /\ st_pc = "write_all"
    /\ \/ /\ st_out' = st_out \o Forwarded(buffer, st_len)
          /\ st_pc' = "read"
          /\ UNCHANGED st_result
       \/ /\ \E k \in PartialLens(Len(Forwarded(buffer, st_len))) :
                st_out' = st_out \o SubSeq(Forwarded(buffer, st_len), 1, k)
          /\ HandleStreamReturns(StErr("write_all"))
    /\ UNCHANGED <<c_vars, conn, consumed, buffer, st_len, st_short, accepts, zero_reads>>
    /\ UNCHANGED st_rest

\* a client connects to the port while the listener is bound
client_connect(c) ==
    /\ Listening
    /\ c_state[c] = "idle"
    /\ c_state' = [c_state EXCEPT ![c] = "connected"]
    /\ backlog' = Append(backlog, c)
    /\ UNCHANGED <<c_sent, sends>>
    /\ UNCHANGED <<st_pc, conn, consumed, buffer, st_len, st_short, st_out,
                   accepts, zero_reads, st_result>>
    /\ UNCHANGED st_rest

\* a connected client writes on its connection, accepted or not
client_send(c) ==
    /\ c_state[c] = "connected"
    /\ sends < MaxSends
    /\ \E bytes \in Chunks(c) : c_sent' = [c_sent EXCEPT ![c] = @ \o bytes]
    /\ sends' = sends + 1
    /\ UNCHANGED <<backlog, c_state>>
    /\ UNCHANGED <<st_pc, conn, consumed, buffer, st_len, st_short, st_out,
                   accepts, zero_reads, st_result>>
    /\ UNCHANGED st_rest

\* a connected client closes its connection in an orderly way
client_close(c) ==
    /\ c_state[c] = "connected"
    /\ c_state' = [c_state EXCEPT ![c] = "closed"]
    /\ UNCHANGED <<backlog, c_sent, sends>>
    /\ UNCHANGED <<st_pc, conn, consumed, buffer, st_len, st_short, st_out,
                   accepts, zero_reads, st_result>>
    /\ UNCHANGED st_rest

\* the steps of start_server itself
StdioSteps ==
    \/ bind
    \/ accept
    \/ peer_addr
    \/ stream_read
    \/ stdout_write_all

StdioNext ==
    \/ bind
    \/ accept
    \/ peer_addr
    \/ stream_read
    \/ stdout_write_all
    \/ \E c \in Clients : client_connect(c)
    \/ \E c \in Clients : client_send(c)
    \/ \E c \in Clients : client_close(c)

-----------------------------------------------------------------------------
(* Specifications *)

\* discover is not running (the specifications of the other operations)
DiscOff ==
    /\ timeout = 0
    /\ retries = 0
    /\ d_pc = "off"
    /\ attempt = 0
    /\ now = 0
    /\ deadline = 0
    /\ inbox = <<>>
    /\ arrived = 0
    /\ probes = 0
    /\ windows = 0
    /\ io_failures = 0
    /\ received = <<>>
    /\ d_result = NoDResult

\* no second call of discover is made
OtherOff ==
    /\ o_pc = "off"
    /\ o_probes = 0
    /\ o_result = NoDResult

\* handle_subcommand is not running: the operation is called on its own
LinkOff ==
    /\ l_pc = "off"
    /\ address = ""
    /\ l_retries = 0
    /\ server = FALSE
    /\ remote_addr = ""
    /\ handler = FALSE
    /\ sigints = 0
    /\ ctrl_c = FALSE
    /\ l_out = <<>>

\* only the operation named by the specification runs
Alone == OtherOff /\ LinkOff

\* one call of send_nro_file against an arbitrary peer
InitSend == \E i \in SendInputs : SendStart(i) /\ DiscOff /\ StdioOff /\ Alone

SpecSend == InitSend /\ [][SendNext]_vars

InitStream == \E i \in StreamInputs : SendStart(i) /\ DiscOff /\ StdioOff /\ Alone

\* one call of send_nro_file, on files whose content is known
SpecStream == InitStream /\ [][SendNext]_vars

\* the calls whose bytes are followed through the transport
TransportInputs ==
    { [name |-> <<97>>, len |-> USize(0, 0), data |-> <<>>, z |-> EmptyZlib, args |-> a] :
        a \in { <<>>, <<ArgBytes(1, 1)>> } }

InitTransport == \E i \in TransportInputs : SendStart(i) /\ DiscOff /\ StdioOff /\ Alone

\* one call of send_nro_file, and the transport under its connection
SpecTransport == InitTransport /\ [][SendNext \/ deliver]_vars

InitArgs == \E a \in ArgLists : ArgsStart(a) /\ DiscOff /\ StdioOff /\ Alone

\* one call of send_nro_args: in it, s_result is what send_nro_args returns
SpecArgs == InitArgs /\ [][ArgsNext]_vars

InitDiscover == \E t \in 0..MaxTimeout, r \in 0..MaxRetries : DiscStart(t, r) /\ SendOff /\ StdioOff /\ Alone

\* one call of discover on an arbitrary network
SpecDiscover == InitDiscover /\ [][DiscNext]_vars

\* the same, where a step of discover that can be taken is taken in the end:
\* the clock advances, the timer fires, and the socket calls complete
FairSpecDiscover == InitDiscover /\ [][DiscNext]_vars /\ WF_vars(DiscSteps)

\* discover(one tick, r) with two or three attempts
InitLate == \E r \in {2, 3} : DiscStart(1, r) /\ SendOff /\ StdioOff /\ Alone

\* one call of discover with more than one attempt, under the same fairness
FairSpecLate == InitLate /\ [][DiscNext]_vars /\ WF_vars(DiscSteps)

\* a second call starts
OtherStart ==
    /\ o_pc = "bind_broadcast"
    /\ o_probes = 0
    /\ o_result = NoDResult

InitTwoDiscover ==
    \E r \in {0, 1, 2} : DiscStart(1, r) /\ OtherStart /\ SendOff /\ StdioOff /\ LinkOff

\* two calls of discover at the same time, on one host
SpecTwoDiscover == InitTwoDiscover /\ [][DiscNext \/ OtherSteps]_vars

InitStdio == StdioStart /\ SendOff /\ DiscOff /\ Alone

\* one call of start_server, with clients that connect, write and close
SpecStdio == InitStdio /\ [][StdioNext]_vars

-----------------------------------------------------------------------------
(* handle_subcommand (src/link.rs), from `let remote_addr` on: discover unless
   an address was given, send_nro_file under select! with ctrl_c(), and
   start_server under a second select! when --server was given *)

\* Duration::from_millis(250), the timeout handed to discover: one clock tick
LinkTimeout == 1

\* number of interrupt signals sent to the process
MaxSigints == 1

\* the values of --retries tried
LinkRetries == {0, 1}

\* the file and argument list tried: the empty file, no argument
LinkInputs == { i \in TransportInputs : i.args = <<>> }

\* faulty variant of InstalledAtEntry: the handler of the interrupt signal is
\* installed before discover runs, which no select! watches
InstalledAtEntryYes == TRUE

\* nothing before the first select! calls ctrl_c(): until then the interrupt
\* signal has its default action, which ends the process
InstalledAtEntry == FALSE

LinkStart(a, r, sv) ==
    /\ l_pc = "resolve"
    /\ address = a
    /\ l_retries = r
    /\ server = sv
    /\ remote_addr = ""
    /\ handler = InstalledAtEntry
    /\ sigints = 0
    /\ ctrl_c = FALSE
    /\ l_out = <<>>

l_inputs == <<address, l_retries, server>>

\* send_nro_file is called: SendStart in the next state
CallSend(i) ==
    /\ file_name' = i.name
    /\ file_length' = i.len
    /\ cmd_args' = i.args
    /\ file_data' = i.data
    /\ zstream' = i.z
    /\ zrest' = i.z
    /\ short_reads' = 0
    /\ s_pc' = "connect"
    /\ s_site' = "none"
    /\ s_frame' = <<>>
    /\ s_log' = <<>>
    /\ s_result' = NoResult
    /\ rx' = <<>>
    /\ peer_sent' = 0
    /\ total_in' = 0
    /\ prev_in' = 0
    /\ delivered' = 0

\* the future of send_nro_file is dropped after it returned: SendOff in the next state
DropSend ==
    /\ file_name' = <<>>
    /\ file_length' = USize(0, 0)
    /\ cmd_args' = <<>>
    /\ file_data' = <<>>
    /\ zstream' = <<>>
    /\ zrest' = <<>>
    /\ short_reads' = 0
    /\ s_pc' = "off"
    /\ s_site' = "none"
    /\ s_frame' = <<>>
    /\ s_log' = <<>>
    /\ s_result' = NoResult
    /\ rx' = <<>>
    /\ peer_sent' = 0
    /\ total_in' = 0
    /\ prev_in' = 0
    /\ delivered' = 0

\* discover is called: DiscStart in the next state
CallDiscover(t, r) ==
    /\ timeout' = t
    /\ retries' = r
    /\ d_pc' = "bind_broadcast"
    /\ attempt' = 0
    /\ now' = 0
    /\ deadline' = 0
    /\ inbox' = <<>>
    /\ arrived' = 0
    /\ probes' = 0
    /\ windows' = 0
    /\ io_failures' = 0
    /\ received' = <<>>
    /\ d_result' = NoDResult

\* discover has returned and its sockets are dropped: DiscOff in the next state
DropDiscover ==
    /\ timeout' = 0
    /\ retries' = 0
    /\ d_pc' = "off"
    /\ attempt' = 0
    /\ now' = 0
    /\ deadline' = 0
    /\ inbox' = <<>>
    /\ arrived' = 0
    /\ probes' = 0
    /\ windows' = 0
    /\ io_failures' = 0
    /\ received' = <<>>
    /\ d_result' = NoDResult

\* start_server is called: StdioStart in the next state
CallServer ==
    /\ st_pc' = "bind"
    /\ backlog' = <<>>
    /\ conn' = 0
    /\ c_state' = [c \in Clients |-> "idle"]
    /\ c_sent' = [c \in Clients |-> <<>>]
    /\ sends' = 0
    /\ consumed' = 0
    /\ buffer' = Fill(BufferLen, 0)
    /\ st_len' = 0
    /\ st_short' = 0
    /\ st_out' = <<>>
    /\ accepts' = 0
    /\ zero_reads' = 0
    /\ st_result' = NoStResult

\* eprintln!/println! of an outcome, and `return` (or the end of the function)
Exit(msg) ==
    /\ l_out' = Append(l_out, msg)
    /\ l_pc' = "exit"

\* the first select! is entered: send_nro_file(remote_addr, ..) is called, and
\* the first poll of ctrl_c() installs the handler of the interrupt signal
EnterSend(addr) ==
    /\ remote_addr' = addr
    /\ \E i \in LinkInputs : CallSend(i)
    /\ l_pc' = "send"
    /\ handler' = TRUE
    /\ ctrl_c' = FALSE

\* let remote_addr = match address { Some(ip_addr) => .., None => discover(..) }
resolve_address ==
    /\ l_pc = "resolve"
    /\ IF address # ""
       THEN /\ EnterSend(address)
            /\ UNCHANGED <<disc_vars, l_out>>
       ELSE /\ CallDiscover(LinkTimeout, l_retries)
            /\ l_pc' = "discover"
            /\ UNCHANGED <<send_vars, remote_addr, handler, ctrl_c, l_out>>
    /\ UNCHANGED <<l_inputs, sigints, other_vars, stdio_vars>>

\* faulty variant of AfterDiscover: without a server found, the upload is tried
\* all the same
AfterDiscoverAnyOk(res) == IF res.ok THEN "send" ELSE "exit"

\* the arms of the match on discover(..).await: Ok(Some(ip_addr)) gives the
\* address, Ok(None) and Err(err) return
AfterDiscover(res) == IF res.ok /\ res.kind = "Some" THEN "send" ELSE "exit"

\* the match on what discover(..).await returned; discover's sockets are dropped
discover_returns ==
    /\ l_pc = "discover"
    /\ d_pc = "done"
    /\ DropDiscover
    /\ IF AfterDiscover(d_result) = "send"
       THEN /\ EnterSend(d_result.ip)
            /\ UNCHANGED l_out
       ELSE /\ IF d_result.ok
               THEN Exit("No server found in the network")
               ELSE Exit("Server discovery failed")
            /\ UNCHANGED <<send_vars, remote_addr, handler, ctrl_c>>
    /\ UNCHANGED <<l_inputs, sigints, other_vars, stdio_vars>>

\* faulty variant of AfterSend: the stdio server is started whatever
\* send_nro_file returned
AfterSendAlways(res, sv) == IF sv THEN "server" ELSE "exit"

\* after the first select!: Err returns; Ok goes on to `if server`
AfterSend(res, sv) == IF res.ok /\ sv THEN "server" ELSE "exit"

\* first select!, the branch of send_nro_file: it has returned `res`, and the
\* connection is dropped; with Ok and --server the second select! is entered,
\* with a new ctrl_c()
send_returns ==
    /\ l_pc = "send"
    /\ s_pc = "done"
    /\ DropSend
    /\ l_out' = Append(l_out, IF s_result.ok THEN "File sent successfully"
                                             ELSE "Failed to send the file")
    /\ l_pc' = AfterSend(s_result, server)
    /\ IF AfterSend(s_result, server) = "server"
       THEN CallServer /\ ctrl_c' = FALSE
       ELSE UNCHANGED <<stdio_vars, ctrl_c>>
    /\ UNCHANGED <<l_inputs, remote_addr, handler, sigints, disc_vars, other_vars>>

\* faulty variant of SendPending: the reads of the acknowledgements are not
\* watched by the select!
SendPendingWrites == s_pc \in {"connect", "wlp_len", "wlp_data", "file_len"}

\* send_nro_file is pending at an await: connect and the writes may be, a
\* read of an acknowledgement is while fewer than four bytes have come
SendPending ==
    \/ s_pc \in {"connect", "wlp_len", "wlp_data", "file_len"}
    \/ s_pc \in {"hs_ack", "data_ack"} /\ Len(rx) < 4

\* first select!, the branch of ctrl_c(): send_nro_file was polled first
\* (biased) and is pending; its future is dropped, and with it the connection
send_cancelled ==
    /\ l_pc = "send"
    /\ ctrl_c
    /\ SendPending
    /\ s_pc' = "off"
    /\ Exit("Aborted by the user")
    /\ UNCHANGED <<s_inputs, zrest, short_reads, s_site, s_frame, s_log, s_result, rx,
                   peer_sent, enc_vars, delivered>>
    /\ UNCHANGED <<l_inputs, remote_addr, handler, sigints, ctrl_c>>
    /\ UNCHANGED <<disc_vars, other_vars, stdio_vars>>

\* second select!, the branch of start_server: it has returned
server_returns ==
    /\ l_pc = "server"
    /\ st_pc = "done"
    /\ IF st_result.ok
       THEN Exit("Connection closed. Exiting...")
       ELSE Exit("Failed to start the nxlink stdio server")
    /\ UNCHANGED <<l_inputs, remote_addr, handler, sigints, ctrl_c>>
    /\ UNCHANGED <<send_vars, disc_vars, other_vars, stdio_vars>>

\* faulty variant of ServerPending: only the wait for a client is watched by
\* the select!
ServerPendingAccept ==
    \/ st_pc = "bind"
    \/ st_pc = "accept" /\ backlog = <<>>

\* start_server is pending at an await: bind and the write to stdout may be,
\* accept is while no client waits, read while the peer has sent nothing
\* more and has not closed
ServerPending ==
    \/ st_pc \in {"bind", "write_all"}
    \/ st_pc = "accept" /\ backlog = <<>>
    \/ st_pc = "read" /\ Unread = <<>> /\ c_state[conn] = "connected"

\* second select!, the branch of ctrl_c(): start_server is pending; its
\* future is dropped, and with it the listener and the accepted connection
server_cancelled ==
    /\ l_pc = "server"
    /\ ctrl_c
    /\ ServerPending
    /\ st_pc' = "off"
    /\ l_pc' = "exit"
    /\ UNCHANGED <<c_vars, conn, consumed, buffer, st_len, st_short, st_out, accepts,
                   zero_reads, st_result>>
    /\ UNCHANGED <<l_inputs, remote_addr, handler, sigints, ctrl_c, l_out>>
    /\ UNCHANGED <<send_vars, disc_vars, other_vars>>

\* the user interrupts the process: with tokio's handler installed the
\* ctrl_c() of the running select! becomes ready; without it the signal ends
\* the process, whose sockets the system closes
sigint ==
    /\ l_pc \in {"resolve", "discover", "send", "server"}
    /\ sigints < MaxSigints
    /\ sigints' = sigints + 1
    /\ IF handler
       THEN /\ ctrl_c' = TRUE
            /\ UNCHANGED <<l_pc, d_pc>>
       ELSE /\ l_pc' = "killed"
            /\ d_pc' = "off"
            /\ UNCHANGED ctrl_c
    /\ UNCHANGED <<timeout, retries, attempt, now, deadline, inbox, arrived,
                   probes, windows, io_failures, received, d_result>>
    /\ UNCHANGED <<l_inputs, remote_addr, handler, l_out>>
    /\ UNCHANGED <<send_vars, other_vars, stdio_vars>>

LinkSteps ==
    \/ resolve_address
    \/ discover_returns
    \/ send_returns
    \/ send_cancelled
    \/ server_returns
    \/ server_cancelled

\* the program's steps, an interrupt, the network of discover, the peer of
\* send_nro_file, and one client of the stdio server
LinkNext ==
    \/ LinkSteps
    \/ sigint
    \/ DiscNext
    \/ SendNext
    \/ StdioSteps
    \/ client_connect(1)
    \/ client_send(1)
    \/ client_close(1)

\* --address given (then --retries is not used), or not given
LinkArgs ==
    { [a |-> "192.168.1.7", r |-> 1, sv |-> sv] : sv \in BOOLEAN }
    \cup { [a |-> "", r |-> r, sv |-> sv] : r \in LinkRetries, sv \in BOOLEAN }

InitLink ==
    \E i \in LinkArgs :
        LinkStart(i.a, i.r, i.sv) /\ SendOff /\ DiscOff /\ StdioOff /\ OtherOff

\* one run of `cargo nx link`, from the choice of the address on
SpecLink == InitLink /\ [][LinkNext]_vars

-----------------------------------------------------------------------------
(* What the peer sees: the connection read back from the history *)

\* the positions of the acknowledgement reads in the history
ReadIdx == { i \in 1..Len(s_log) : s_log[i].op = "read" }

NumReads == Cardinality(ReadIdx)

FirstRead == CHOOSE i \in ReadIdx : \A j \in ReadIdx : i <= j

SecondRead == CHOOSE i \in ReadIdx \ {FirstRead} : \A j \in ReadIdx \ {FirstRead} : i <= j

\* the position of the last read, 0 when there is none
LastRead == IF ReadIdx = {} THEN 0 ELSE CHOOSE i \in ReadIdx : \A j \in ReadIdx : j <= i

\* the bytes written by the events i..j of the history, in order
RECURSIVE Written(_, _)
Written(i, j) ==
    IF i > j THEN <<>>
    ELSE IF s_log[j].op = "write" THEN Written(i, j - 1) \o s_log[j].bytes
    ELSE Written(i, j - 1)

\* a byte string is a sequence of complete frames, as a reader of frames reads it
RECURSIVE WellFramed(_)
WellFramed(b) ==
    \/ b = <<>>
    \/ /\ Len(b) >= 4
       /\ Len(b) >= 4 + FromLE32(SubSeq(b, 1, 4))
       /\ WellFramed(SubSeq(b, 5 + FromLE32(SubSeq(b, 1, 4)), Len(b)))

\* the payloads of a sequence of complete frames, concatenated
RECURSIVE Payloads(_)
Payloads(b) ==
    IF b = <<>> THEN <<>>
    ELSE SubSeq(b, 5, 4 + FromLE32(SubSeq(b, 1, 4)))
         \o Payloads(SubSeq(b, 5 + FromLE32(SubSeq(b, 1, 4)), Len(b)))

\* a byte string is exactly one complete frame
OneFrame(b) == Len(b) >= 4 /\ Len(b) = 4 + FromLE32(SubSeq(b, 1, 4))

\* a byte string is the handshake of this call: the name frame and the length field
IsHandshake(b) ==
    /\ Len(b) = 4 + Len(file_name) + 4
    /\ FromLE32(SubSeq(b, 1, 4)) = Len(file_name)
    /\ SubSeq(b, 5, 4 + Len(file_name)) = file_name
    /\ SubSeq(b, 5 + Len(file_name), Len(b)) = SubSeq(file_length, 1, 4)

\* the acknowledgement code c was read by the n-th read of the history
ReadCode(idx, c) == s_log[idx].bytes = I32ToLE(c)

HandshakeBytes == Written(1, FirstRead - 1)
DataBytes == Written(FirstRead + 1, SecondRead - 1)
ArgBytesSent == Written(SecondRead + 1, Len(s_log))

\* the bytes written by send_nro_args
ArgFrame == Written(LastRead + 1, Len(s_log))

-----------------------------------------------------------------------------
(* C1: when send_nro_file succeeds, the bytes on the connection are the name
   frame and the u32 file length, all written before the first
   acknowledgement is read; then only complete data frames, all written
   before the second acknowledgement is read; then exactly one argument
   frame; and nothing else. *)
C1_FrameOrder ==
    s_result.ok =>
        /\ NumReads = 2
        /\ s_log[1] = ConnectEv
        /\ IsHandshake(HandshakeBytes)
        /\ WellFramed(DataBytes)
        /\ Payloads(DataBytes) = zstream
        /\ OneFrame(ArgBytesSent)

\* a successful call that sent more than one data frame
C1_Witness ==
    /\ s_result.ok
    /\ Len(zstream) > MAX_FILE_CHUNK_SIZE
    /\ Len(DataBytes) > Len(zstream) + 4

-----------------------------------------------------------------------------
(* C2: the handshake acknowledgement code is mapped exactly: 0 lets the call
   go on, -1 is CouldNotCreateFile, -2 InsufficientSpace, -3
   FileExtensionNotRecognized, and every other code c, positive or negative,
   is UnknownError carrying c. *)
C2_AckMapping ==
    NumReads >= 1 =>
        \A c \in AckCodes :
            ReadCode(FirstRead, c) =>
                CASE c = 0  -> /\ s_result.kind # "SendNroError"
                               /\ s_pc # "hs_ack"
                               /\ (s_pc = "done" => s_result # NoResult)
                  [] c = -1 -> s_result = [ok |-> FALSE, kind |-> "SendNroError",
                                           variant |-> "CouldNotCreateFile", code |-> 0]
                  [] c = -2 -> s_result = [ok |-> FALSE, kind |-> "SendNroError",
                                           variant |-> "InsufficientSpace", code |-> 0]
                  [] c = -3 -> s_result = [ok |-> FALSE, kind |-> "SendNroError",
                                           variant |-> "FileExtensionNotRecognized", code |-> 0]
                  [] OTHER  -> s_result = [ok |-> FALSE, kind |-> "SendNroError",
                                           variant |-> "UnknownError", code |-> c]

\* the most negative code was read and is carried by UnknownError
C2_Witness ==
    /\ NumReads = 1
    /\ s_log[FirstRead].bytes = <<0, 0, 0, 128>>
    /\ s_result.variant = "UnknownError"
    /\ s_result.code = -2147483647 - 1

(* C3: when the first acknowledgement code is not 0, send_nro_file fails with
   the peer error of that code and nothing is written to the connection
   after the acknowledgement: no data frame and no argument frame. *)
C3_NoDataAfterReject ==
    (NumReads >= 1 /\ ~ReadCode(FirstRead, 0)) =>
        /\ s_pc = "done"
        /\ ~s_result.ok
        /\ s_result.kind = "SendNroError"
        /\ Len(s_log) = FirstRead
        /\ Written(FirstRead + 1, Len(s_log)) = <<>>

\* the peer answered the handshake with -2
C3_Witness ==
    /\ NumReads = 1
    /\ ReadCode(FirstRead, -2)
    /\ s_result.variant = "InsufficientSpace"
    /\ zrest = zstream

(* C4: when the second acknowledgement code is not 0, send_nro_file fails with
   the one generic "Unknown error", which is no SendNroError and carries no
   code, and no argument frame is written afterwards. *)
C4_DataAckGeneric ==
    (NumReads = 2 /\ ~ReadCode(SecondRead, 0)) =>
        /\ s_pc = "done"
        /\ s_result = [ok |-> FALSE, kind |-> "message",
                       variant |-> "Unknown error", code |-> 0]
        /\ Len(s_log) = SecondRead

\* the peer answered the data with -2, a code the handshake classifies
C4_Witness ==
    /\ NumReads = 2
    /\ ReadCode(SecondRead, -2)
    /\ s_pc = "done"

(* C5: send_nro_file returns Ok only after the connection was opened, the whole
   handshake written, a first acknowledgement of 0 read, every data frame
   written, a second acknowledgement of 0 read and the whole argument frame
   written; a call in which a step failed or a code rejected has returned an
   error. *)
C5_SuccessOnlyIfAll ==
    /\ s_result.ok =>
        /\ s_pc = "done"
        /\ s_log[1] = ConnectEv
        /\ NumReads = 2
        /\ Len(HandshakeBytes) = 4 + Len(file_name) + 4
        /\ ReadCode(FirstRead, 0)
        /\ zrest = <<>>
        /\ WellFramed(DataBytes) /\ Len(Payloads(DataBytes)) = Len(zstream)
        /\ ReadCode(SecondRead, 0)
        /\ OneFrame(ArgBytesSent)
    /\ s_pc = "done" => s_result # NoResult

\* a successful call with arguments
C5_Witness ==
    /\ s_result.ok
    /\ cmd_args # <<>>
    /\ Len(ArgBytesSent) > 4

-----------------------------------------------------------------------------
(* The argument blob *)

\* the argument blob of the running call, once send_nro_args has built it
Blob == s_frame

\* the positions of the terminators in the blob
Nuls == { i \in 1..Len(Blob) : Blob[i] = 0 }

\* the string that the terminator at position z ends
StringBefore(z) ==
    LET before == { i \in Nuls : i < z }
        start == IF before = {} THEN 1
                 ELSE 1 + CHOOSE i \in before : \A j \in before : j <= i
    IN SubSeq(Blob, start, z - 1)

\* size of the first j arguments in the blob, each with its terminator
RECURSIVE Cum(_)
Cum(j) == IF j = 0 THEN 0 ELSE Cum(j - 1) + Len(cmd_args[j]) + 1

\* the number of leading arguments that fit the cap together
Fitting == Cardinality({ j \in 1..Len(cmd_args) : Cum(j) <= 3072 })

\* the first k arguments, each followed by a NUL
RECURSIVE Terminated(_)
Terminated(k) == IF k = 0 THEN <<>> ELSE (Terminated(k - 1) \o cmd_args[k]) \o <<0>>

(* C6: the argument blob is at most 3072 bytes long, and it consists of
   complete arguments of the list, each followed by its NUL; what is sent in
   the argument frame is that blob. *)
C6_BlobBounded ==
    s_site = "args" =>
        /\ Len(Blob) <= 3072
        /\ Blob # <<>> => Blob[Len(Blob)] = 0
        /\ \A z \in Nuls : \E i \in 1..Len(cmd_args) : StringBefore(z) = cmd_args[i]
        /\ s_result.ok =>
              /\ Len(ArgFrame) = 4 + Len(Blob)
              /\ FromLE32(SubSeq(ArgFrame, 1, 4)) = Len(Blob)
              /\ SubSeq(ArgFrame, 5, Len(ArgFrame)) = Blob

\* a blob of exactly 3072 bytes was sent
C6_Witness ==
    /\ s_site = "args"
    /\ s_result.ok
    /\ Len(Blob) = 3072
    /\ Len(ArgFrame) = 3076
    /\ Len(cmd_args) > 1

(* C7: the argument blob is the first k arguments, in order, each followed by
   a NUL, where k is the number of leading arguments that fit 3072 bytes
   together; from the first argument that does not fit on, every argument is
   dropped. *)
C7_PrefixStopping ==
    s_site = "args" =>
        /\ Blob = Terminated(Fitting)
        /\ s_result.ok => SubSeq(ArgFrame, 5, Len(ArgFrame)) = Terminated(Fitting)

\* an argument was dropped and a later one, which would still fit, as well
C7_Witness ==
    /\ s_site = "args"
    /\ s_result.ok
    /\ \E j \in 1..Len(cmd_args) :
          /\ j > Fitting + 1
          /\ Len(Blob) + Len(cmd_args[j]) + 1 <= 3072

(* C8: send_nro_file reads two acknowledgement codes and never a third: once
   the argument frame is written it returns Ok, whatever the peer has sent
   after the second code, which stays unread; the argument frame is written
   also for an empty argument list, as a frame of length 0. *)
C8_NoThirdAck ==
    /\ NumReads <= 2
    /\ s_result.ok =>
        /\ NumReads = 2
        /\ OneFrame(ArgBytesSent)
        /\ cmd_args = <<>> => ArgBytesSent = <<0, 0, 0, 0>>
        /\ Len(rx) = 4 * (peer_sent - 2)
    /\ (s_site = "args" /\ s_pc # "wlp_data" /\ OneFrame(ArgBytesSent)) => s_result.ok

\* success with an empty argument list while a third code of the peer is unread
C8_Witness ==
    /\ s_result.ok
    /\ cmd_args = <<>>
    /\ rx = I32ToLE(-1)

-----------------------------------------------------------------------------
(* Properties of discover *)

\* a datagram is a discovery reply: it begins with the six bytes "bootnx"
ValidReply(d) ==
    /\ Len(d.payload) >= 6
    /\ SubSeq(d.payload, 1, 6) = <<98, 111, 111, 116, 110, 120>>

(* C9: once a valid reply has been received, in attempt k, discover has
   returned the address of its sender; it takes no further step: it sends no
   probe of a later attempt and receives nothing more, so the reply is the
   last datagram received and at most k probes were sent. *)
C9_ShortCircuit ==
    \A i \in 1..Len(received) :
        ValidReply(received[i]) =>
            /\ i = Len(received)
            /\ d_pc = "done"
            /\ d_result = [ok |-> TRUE, kind |-> "Some", cause |-> "", ip |-> received[i].src]
            /\ attempt < retries
            /\ probes <= attempt + 1
            /\ ~ENABLED DiscSteps

\* discover(timeout, 3) where the reply comes in the second attempt, after the
\* first has timed out
C9_Witness ==
    /\ retries = 3
    /\ attempt = 1
    /\ windows = 1
    /\ probes = 2
    /\ d_result.kind = "Some"
    /\ d_result.ip = "192.168.1.9"

\* what holds of the waiting of discover in every state
BoundedWindows ==
    /\ windows <= retries
    /\ now <= retries * timeout
    /\ now <= deadline
    /\ d_pc # "done" => ENABLED DiscSteps
    /\ (d_pc = "done" /\ received = <<>> /\ io_failures = 0 /\ d_result.cause # "io") =>
          /\ d_result = [ok |-> TRUE, kind |-> "None", cause |-> "", ip |-> ""]
          /\ attempt = retries
          /\ probes = retries
          /\ windows = retries
          /\ now = retries * timeout

(* C10: discover waits for at most retries timeouts, and the time it has waited
   never exceeds retries * timeout; when it has received no datagram and no
   socket call has failed, it returns Ok(None) after exactly retries
   attempts, each with one probe and one timeout; and it always returns: it
   never blocks forever, for the clock advances to the deadline of the
   attempt and then the timer fires. *)
C10_NotFoundInTime == []BoundedWindows /\ <>(d_pc = "done")

\* three attempts without a reply
C10_Witness ==
    /\ d_pc = "done"
    /\ retries = 3
    /\ timeout = 2
    /\ received = <<>>
    /\ windows = 3
    /\ now = 6
    /\ d_result.kind = "None"


\* the datagram received by the step, when the step receives one
JustReceived == received'[Len(received')]

\* the step is recv_from handing a datagram to recv_pong_response
Receives == Len(received') = Len(received) + 1

\* the step is made inside the loop of discover
InLoop == d_pc \in {"send_ping", "recv_pong"}

\* the step makes discover return
Returns == d_pc # "done" /\ d_pc' = "done"

(* C11 (as amended): discover(timeout, 0) sends no probe, receives nothing and
   waits for nothing: it never reaches the loop body; it returns Ok(None),
   unless binding a socket or enabling broadcast fails, and then it returns
   that error. *)
C11_ZeroAttempts ==
    retries = 0 =>
        /\ probes = 0
        /\ windows = 0
        /\ io_failures = 0
        /\ received = <<>>
        /\ now = 0
        /\ d_pc \in {"bind_broadcast", "set_broadcast", "bind_receive", "done"}
        /\ d_pc = "done" =>
              /\ \/ d_result = [ok |-> TRUE, kind |-> "None", cause |-> "", ip |-> ""]
                 \/ d_result = [ok |-> FALSE, kind |-> "", cause |-> "io", ip |-> ""]
              /\ ~ENABLED DiscSteps

\* discover(timeout, 0) has returned Ok(None)
C11_Witness ==
    /\ retries = 0
    /\ d_pc = "done"
    /\ d_result.ok
    /\ d_result.kind = "None"
    /\ probes = 0

(* C11 as stated: discover(timeout, 0) always returns Ok(None), whatever the
   state of the receive port. *)
C11_AlwaysNotFound ==
    (retries = 0 /\ d_pc = "done") =>
        d_result = [ok |-> TRUE, kind |-> "None", cause |-> "", ip |-> ""]

(* C12 as stated: a step that receives a malformed datagram never makes
   discover return an address or fail: the loop goes on with the next
   attempt, or is over (Ok(None)) when that was the last one. *)
C12_MalformedIgnored ==
    [][(Receives /\ ~ValidReply(JustReceived)) =>
          \/ d_pc' = "send_ping" /\ attempt' = attempt + 1
          \/ /\ d_pc' = "done"
             /\ d_result' = [ok |-> TRUE, kind |-> "None", cause |-> "", ip |-> ""]]_vars

(* C13 as stated: when the last attempt ends without a valid reply and
   without a failure of send_to or recv_from, by the timer or by a malformed
   datagram, discover returns Ok(None). *)
C13_ExhaustionNotFound ==
    [][(InLoop /\ Returns /\ io_failures' = io_failures
            /\ ~(Receives /\ ValidReply(JustReceived))) =>
          d_result' = [ok |-> TRUE, kind |-> "None", cause |-> "", ip |-> ""]]_vars

(* C14 as stated: inside the loop discover returns an error exactly in a step
   where send_to or recv_from fails in the last attempt; before the loop it
   fails only with the error of a socket call. *)
C14_ErrorIffFinalFailure ==
    [][/\ InLoop =>
            ((Returns /\ ~d_result'.ok) <=>
                (io_failures' = io_failures + 1 /\ attempt + 1 = retries))
       /\ (~InLoop /\ Returns /\ ~d_result'.ok) =>
            d_result' = [ok |-> FALSE, kind |-> "", cause |-> "io", ip |-> ""]]_vars

(* C15: a datagram handed to recv_pong_response makes discover return an
   address if and only if it has at least 6 bytes and its first 6 bytes are
   "bootnx" (whatever follows them); the probe "nxboot" never does; and the
   address returned is the address the datagram came from. *)
C15_AcceptIffBootnx ==
    /\ \A i \in 1..Len(received) :
          (i = Len(received) /\ d_pc = "done" /\ d_result.ok /\ d_result.kind = "Some")
              <=> ValidReply(received[i])
    /\ \A i \in 1..Len(received) :
          received[i].payload = <<110, 120, 98, 111, 111, 116>> =>
              ~(i = Len(received) /\ d_result.kind = "Some")
    /\ d_result.kind = "Some" =>
          /\ received # <<>>
          /\ d_result.ip = received[Len(received)].src

\* the probe, from one sender, is turned down, and a reply followed by more
\* bytes, from another sender, is accepted
C15_Witness ==
    /\ Len(received) = 2
    /\ received[1].payload = <<110, 120, 98, 111, 111, 116>>
    /\ received[1].src = "192.168.1.7"
    /\ Len(received[2].payload) > 6
    /\ received[2].src = "192.168.1.9"
    /\ d_result.kind = "Some"
    /\ d_result.ip = "192.168.1.9"


-----------------------------------------------------------------------------
(* Properties of start_server *)

IsPrefix(a, b) == Len(a) <= Len(b) /\ a = SubSeq(b, 1, Len(a))

\* every byte the accepted client has written, <<>> before the accept
FromPeer == IF conn = 0 THEN <<>> ELSE c_sent[conn]

(* C16: at every moment the bytes written to standard output are a prefix of
   the bytes the accepted client has written, however the reads split them;
   and once a read has returned 0 bytes (the client closed in an orderly way
   and everything was read), the output is all the client wrote and
   start_server has returned Ok(()). *)
C16_VerbatimRelay ==
    /\ IsPrefix(st_out, FromPeer)
    /\ Len(st_out) <= consumed
    /\ zero_reads > 0 =>
          /\ st_out = FromPeer
          /\ st_pc = "done"
          /\ st_result = [ok |-> TRUE, site |-> ""]

\* "hello\n" and 1025 bytes more were relayed in three reads, and the client
\* closed
C16_Witness ==
    /\ st_pc = "done"
    /\ st_result.ok
    /\ conn = 1
    /\ Len(c_sent[1]) = 6 + BufferLen + 1
    /\ SubSeq(st_out, 1, 6) = <<104, 101, 108, 108, 111, 10>>
    /\ st_out = c_sent[1]
    /\ st_short = 1

(* C17: one call of start_server accepts at most one connection: accept
   returns once, the connection read is that one for the rest of the call,
   only its bytes reach standard output, and once start_server has returned it
   takes no further step, whatever other clients have connected or written. *)
C17_OneConnection ==
    /\ accepts <= 1
    /\ accepts = 0 <=> conn = 0
    /\ conn # 0 => conn \notin {backlog[i] : i \in 1..Len(backlog)}
    /\ IsPrefix(st_out, FromPeer)
    /\ st_pc = "done" => ~ENABLED StdioSteps

\* the first client was served and closed; the second connected and wrote
\* during the call, and none of its bytes were relayed
C17_Witness ==
    /\ st_pc = "done"
    /\ st_result.ok
    /\ conn = 1
    /\ backlog = <<2>>
    /\ c_sent[2] # <<>>
    /\ c_sent[1] # <<>>
    /\ st_out = c_sent[1]

(* C18: start_server returns Ok(()) exactly when a read has returned 0 bytes;
   otherwise it returns the error of the bind, accept, peer_addr, read or
   write_all call that failed; before a connection is accepted nothing is
   written; and after it has returned, with an error or not, it reads and
   writes nothing more. *)
C18_OkIffZeroRead ==
    /\ (st_pc = "done" /\ st_result.ok) <=> zero_reads > 0
    /\ zero_reads <= 1
    /\ (st_pc = "done" /\ ~st_result.ok) =>
          /\ st_result.site \in {"bind", "accept", "peer_addr", "read", "write_all"}
          /\ st_result.site \in {"bind", "accept"} => accepts = 0 /\ st_out = <<>>
          /\ st_result.site = "peer_addr" => accepts = 1 /\ consumed = 0 /\ st_out = <<>>
          /\ st_result.site = "read" => st_out = SubSeq(FromPeer, 1, consumed)
          /\ st_result.site = "write_all" => consumed > 0
    /\ st_pc # "done" => st_result = [ok |-> FALSE, site |-> "none"]
    /\ st_pc = "done" => ~ENABLED StdioSteps

\* a write to standard output failed after some bytes had been forwarded, and
\* bytes of the client are left unread
C18_Witness ==
    /\ st_pc = "done"
    /\ st_result = [ok |-> FALSE, site |-> "write_all"]
    /\ st_out # <<>>
    /\ Len(st_out) < consumed
    /\ consumed < Len(c_sent[conn])


-----------------------------------------------------------------------------
(* The upload client as a state machine *)

UploadStates ==
    <<"Connecting", "HandshakeSent", "AwaitingHandshakeAck", "Streaming",
      "AwaitingDataAck", "SendingArgs", "Done", "Aborted">>

\* the state of the upload client, as its place in UploadStates
UploadState ==
    CASE s_pc = "connect" -> 1
      [] s_pc \in {"wlp_len", "wlp_data"} /\ s_site = "name" -> 2
      [] s_pc = "file_len" -> 2
      [] s_pc = "hs_ack" -> 3
      [] s_pc = "enc_read" -> 4
      [] s_pc \in {"wlp_len", "wlp_data"} /\ s_site = "chunk" -> 4
      [] s_pc = "data_ack" -> 5
      [] s_pc = "send_nro_args" -> 6
      [] s_pc \in {"wlp_len", "wlp_data"} /\ s_site = "args" -> 6
      [] s_pc = "done" /\ s_result.ok -> 7
      [] s_pc = "done" /\ ~s_result.ok -> 8

\* a step in which send_nro_file returns an error
Aborts == SendNext /\ s_pc' = "done" /\ ~s_result'.ok

\* a step from a non-terminal state goes to the same state, to the next one or
\* to Aborted, and a terminal state is left by no step
Linear ==
    /\ UploadState <= 6 => UploadState' \in {UploadState, UploadState + 1, 8}
    /\ UploadState >= 7 => UNCHANGED vars

\* from a non-terminal state a step to Aborted can be taken: at once where the
\* client waits for the connection, the file, a write or a read; from the
\* filling of the argument buffer, which awaits nothing, in the write of the
\* length prefix that follows it; a write_all of no bytes, which comes after
\* that write, cannot fail
AbortPossible ==
    UploadState <= 6 =>
        CASE s_pc = "send_nro_args" ->
                ENABLED (send_nro_args /\ s_pc' = "wlp_len" /\ s_site' = "args")
          [] s_pc = "wlp_data" /\ s_frame = <<>> -> UploadState \in {2, 6}
          [] OTHER -> ENABLED Aborts

(* C19: send_nro_file starts in Connecting; each of its steps stays in its
   state, goes to the next state of Connecting, HandshakeSent,
   AwaitingHandshakeAck, Streaming, AwaitingDataAck, SendingArgs, Done, or goes
   to Aborted; no step leaves Done or Aborted; and in every non-terminal state
   a step to Aborted is possible. *)
C19_LinearSinglePass ==
    /\ UploadState = 1
    /\ [][Linear]_vars
    /\ []AbortPossible

\* the call went through every state and is Done, having sent two data frames
C19_Witness ==
    /\ UploadState = 7
    /\ NumReads = 2
    /\ zrest = <<>>
    /\ short_reads = 1
    /\ s_site = "args"

\* number of times connect returned a connection
Connects == Cardinality({i \in 1..Len(s_log) : s_log[i] = ConnectEv})

\* the bytes written before the first acknowledgement was read
BeforeFirstRead ==
    IF ReadIdx = {} THEN Written(1, Len(s_log)) ELSE Written(1, FirstRead - 1)

\* the bytes written after the first acknowledgement was read and before the
\* second
BeforeSecondRead ==
    IF NumReads < 2 THEN Written(FirstRead + 1, Len(s_log))
    ELSE Written(FirstRead + 1, SecondRead - 1)

\* the handshake of this call, as the peer is to read it
TheHandshake ==
    <<Len(file_name) % 256, (Len(file_name) \div 256) % 256, 0, 0>>
    \o file_name \o SubSeq(file_length, 1, 4)

(* C20: one call of send_nro_file connects at most once, before anything is
   written or read; a failed connect ends the call with nothing sent; the
   handshake is written at most once; between two data frames, every byte of
   the compressed stream returned so far has been sent exactly once; at most
   two acknowledgements are read; and when the call has returned, with an
   error, a rejection or Ok(()), it takes no further step. *)
C20_OneConnectionNoRetry ==
    /\ Connects <= 1
    /\ s_log # <<>> => s_log[1] = ConnectEv
    /\ s_pc \notin {"connect", "done"} => Connects = 1
    /\ (s_pc = "done" /\ Connects = 0) => s_log = <<>> /\ ~s_result.ok
    /\ NumReads <= 2
    /\ Connects = 1 => IsPrefix(BeforeFirstRead, TheHandshake)
    /\ (NumReads >= 1 /\ s_pc \in {"enc_read", "data_ack"}) =>
          /\ WellFramed(BeforeSecondRead)
          /\ Payloads(BeforeSecondRead) \o zrest = zstream
    /\ s_pc = "done" => ~ENABLED SendNext

\* the peer turned the handshake down: one connection, one handshake, and the
\* call is over
C20_Witness ==
    /\ s_pc = "done"
    /\ s_result.kind = "SendNroError"
    /\ Connects = 1
    /\ BeforeFirstRead = TheHandshake
    /\ NumReads = 1
    /\ zrest = zstream

-----------------------------------------------------------------------------
(* The data frames and the file *)

\* the compressed bytes the peer was sent: the payloads of the data frames
SentStream == Payloads(DataBytes)

(* C26: when send_nro_file succeeds on a file, the payloads of its data
   frames, joined in the order sent, are a zlib stream, and inflating it gives
   back the bytes of the file, all of them and in order. (Checked for the
   streams whose blocks Inflate reads: all of StreamInputs but ZeroZlib.) *)
C26_RoundTrip ==
    (s_result.ok /\ zstream # ZeroZlib) =>
        /\ WellFramed(DataBytes)
        /\ Inflate(SentStream).ok
        /\ Inflate(SentStream).data = file_data

\* a three-byte file went out in two data frames, and the call succeeded
C26_Witness ==
    /\ s_result.ok
    /\ file_data = <<97, 98, 99>>
    /\ short_reads = 1
    /\ Len(SentStream) = Len(file_data) + 11

(* C29 as stated: the read of one iteration of the loop consumes at most
   16 KiB of the file, so that every data frame corresponds to at most 16 KiB
   of uncompressed input. *)
C29_InputPerFrameBounded == total_in - prev_in <= MAX_FILE_CHUNK_SIZE

\* what was written after the first acknowledgement was read and before the
\* second one was: the data frames
DataSoFar ==
    IF NumReads = 0 THEN <<>>
    ELSE Written(FirstRead + 1, IF NumReads >= 2 THEN SecondRead - 1 ELSE Len(s_log))

\* the loop of compress_and_send_nro_file_data was left
Streamed == s_pc \in {"data_ack", "send_nro_args"} \/ NumReads >= 2

(* C30: the declared file_length appears in the handshake, as its low four
   bytes, and decides nothing else: between two frames the payloads sent so
   far and what the encoder still holds make up the encoder's stream, and the
   loop is left exactly when the encoder holds nothing more, having sent the
   whole stream, whether file_length is the true length of the file, smaller
   or larger. *)
C30_LengthOnlyInHandshake ==
    /\ NumReads >= 1 => HandshakeBytes = TheHandshake
    /\ s_pc = "enc_read" =>
          /\ WellFramed(DataSoFar)
          /\ Payloads(DataSoFar) \o zrest = zstream
    /\ Streamed =>
          /\ zrest = <<>>
          /\ WellFramed(DataSoFar)
          /\ Payloads(DataSoFar) = zstream

\* a file of three bytes was declared as empty, and the call succeeded
C30_Witness ==
    /\ s_result.ok
    /\ file_data = <<97, 98, 99>>
    /\ file_length = USizeOf(0)
    /\ Payloads(DataSoFar) = ZlibStored(file_data)

-----------------------------------------------------------------------------
(* The connection under send_nro_file *)

(* C28 (as amended): when send_nro_file returns Ok, every write it made was
   complete: the handshake, each data frame and the argument frame were handed
   to the socket whole, the handshake and the data frames before the
   acknowledgement that follows them was read. What was handed over need not
   have reached the peer: the bytes delivered are some prefix of it. *)
C28_HandedOverInFull ==
    s_result.ok =>
        /\ HandshakeBytes = TheHandshake
        /\ WellFramed(DataBytes)
        /\ Payloads(DataBytes) = zstream
        /\ ArgBytesSent = LE32(Len(CmdBuf(cmd_args).buf)) \o CmdBuf(cmd_args).buf
        /\ AllWritten = (HandshakeBytes \o DataBytes) \o ArgBytesSent
        /\ delivered <= Len(AllWritten)

\* the call has returned Ok while the argument frame, and more, is in flight
C28_Witness ==
    /\ s_result.ok
    /\ cmd_args # <<>>
    /\ delivered < Len(AllWritten) - Len(ArgBytesSent)

(* C28 as stated: when send_nro_file returns Ok, no byte it has written is
   still pending delivery to the peer. *)
C28_AllDelivered == s_result.ok => delivered = Len(AllWritten)

-----------------------------------------------------------------------------
(* Two calls of discover *)

\* a call leaves its bind of port 28771 while the other call holds the port
BindWhileHeld ==
    \/ OtherHoldsPort /\ d_pc = "bind_receive" /\ d_pc' # d_pc
    \/ HoldsPort /\ o_pc = "bind_receive" /\ o_pc' # o_pc

\* that call returns an error, and has sent no probe
BindFailed ==
    IF d_pc' # d_pc
    THEN d_pc' = "done" /\ ~d_result'.ok /\ d_result'.kind = "" /\ probes' = 0
    ELSE o_pc' = "done" /\ ~o_result'.ok /\ o_result'.kind = "" /\ o_probes' = 0

(* C27: port 28771 is held by one call of discover at a time: two calls never
   hold a receive socket on it together, and a call that reaches its bind of
   the port while the other one holds it returns the error of the bind,
   having sent no probe. *)
C27_ExclusivePort ==
    /\ [](~(HoldsPort /\ OtherHoldsPort))
    /\ [][BindWhileHeld => BindFailed]_vars

\* the second call has failed at its bind while the first, which has sent a
\* probe, holds the port
C27_Witness ==
    /\ HoldsPort
    /\ probes = 1
    /\ o_pc = "done"
    /\ o_result = DiscErr("", "AddrInUse")
    /\ o_probes = 0

-----------------------------------------------------------------------------
(* The link flow *)

Printed(msg) == \E k \in 1..Len(l_out) : l_out[k] = msg

\* a step in which send_nro_file is called
StartsSend == s_pc = "off" /\ s_pc' = "connect"

\* a step in which start_server is called
StartsServer == st_pc = "off" /\ st_pc' = "bind"

\* at most one of discover, send_nro_file and start_server is running
NoOverlap ==
    Cardinality({ o \in {"d", "s", "st"} :
                    \/ o = "d" /\ d_pc # "off"
                    \/ o = "s" /\ s_pc # "off"
                    \/ o = "st" /\ st_pc # "off" }) <= 1

(* C21: the link flow runs discover, send_nro_file and start_server one after
   the other, never two at a time: send_nro_file is called only when an
   address was given (discover is then never called) or in the step in which
   discover has returned an address, to which it connects; start_server is
   called only in the step in which send_nro_file has returned Ok, and only
   with --server; after a failed or cancelled upload it is not called. *)
C21_FixedOrder ==
    /\ []NoOverlap
    /\ [][StartsSend =>
            \/ l_pc = "resolve" /\ address # "" /\ remote_addr' = address
            \/ /\ l_pc = "discover" /\ address = ""
               /\ d_pc = "done" /\ d_result = Found(remote_addr')]_vars
    /\ [][StartsServer =>
            l_pc = "send" /\ s_pc = "done" /\ s_result.ok /\ server]_vars
    /\ []((Printed("Failed to send the file") \/ Printed("Aborted by the user"))
            => st_pc = "off")

\* an address was discovered, the file was sent, and the stdio server listens
C21_Witness ==
    /\ address = ""
    /\ remote_addr = "192.168.1.9"
    /\ l_out = <<"File sent successfully">>
    /\ st_pc = "accept"

\* a step in which the interrupt signal reaches the process
Interrupted == sigints' = sigints + 1

(* C22: an interrupt while discover runs, at whichever of its awaits, abandons
   it in that step: the process ends (the signal has its default action then),
   which closes the sockets of discover; from then on no probe is sent, no
   datagram is received, no connection for the upload is opened and nothing
   more is printed. *)
C22_DiscoveryCancellable ==
    /\ []((l_pc = "discover" /\ sigints < MaxSigints) => ENABLED sigint)
    /\ [][(l_pc = "discover" /\ Interrupted) =>
            /\ l_pc' = "killed"
            /\ d_pc' = "off"
            /\ probes' = probes]_vars
    /\ [][l_pc = "killed" =>
            /\ l_pc' = "killed"
            /\ UNCHANGED <<disc_vars, send_vars, stdio_vars, l_out>>]_vars
    /\ [](l_pc = "killed" => (s_pc = "off" /\ s_log = <<>> /\ ~ENABLED DiscNext))

\* the interrupt came after the first probe, while the reply was awaited
C22_Witness ==
    /\ l_pc = "killed"
    /\ probes = 1
    /\ received = <<>>
    /\ d_result = NoDResult

\* the upload was cancelled
Aborted == Printed("Aborted by the user")

(* C23: while send_nro_file is pending at connect, at a write or at the read
   of an acknowledgement, an interrupt that has arrived can be taken; the step
   that takes it drops the call with its connection: what was written stays
   written, nothing is written or read afterwards, the peer can send nothing
   more, the only outcome printed is "Aborted by the user" (never the
   success), and the stdio server is not started. *)
C23_UploadCancellable ==
    /\ []((/\ l_pc = "send"
           /\ ctrl_c
           /\ \/ s_pc \in {"connect", "wlp_len", "wlp_data", "file_len"}
              \/ s_pc \in {"hs_ack", "data_ack"} /\ Len(rx) < 4)
          => ENABLED send_cancelled)
    /\ [](Aborted =>
            /\ l_out = <<"Aborted by the user">>
            /\ l_pc = "exit"
            /\ s_pc = "off"
            /\ s_result = NoResult
            /\ st_pc = "off"
            /\ ~ENABLED SendNext)
    /\ [][Aborted' => s_log' = s_log]_vars

\* the upload was cancelled while the second acknowledgement was awaited
C23_Witness ==
    /\ Aborted
    /\ NumReads = 1
    /\ s_frame # <<>>
    /\ zrest = <<>>

\* the stdio server was cancelled: it was started, and has not returned
ServerCancelled == l_pc = "exit" /\ server /\ Printed("File sent successfully") /\ st_pc = "off"

(* C24: while start_server is pending at bind, at accept with no client
   waiting, at a read with nothing to read, or at the write to stdout, an
   interrupt that has arrived can be taken; the step that takes it ends the
   call and drops the listener and the accepted connection: no client can
   connect any more, and nothing is written to stdout from then on, whatever
   the peer has sent or sends. *)
C24_ServerCancellable ==
    /\ []((/\ l_pc = "server"
           /\ ctrl_c
           /\ \/ st_pc \in {"bind", "write_all"}
              \/ st_pc = "accept" /\ backlog = <<>>
              \/ st_pc = "read" /\ Unread = <<>> /\ c_state[conn] = "connected")
          => ENABLED server_cancelled)
    /\ [](ServerCancelled =>
            /\ st_result = NoStResult
            /\ ~ENABLED StdioSteps
            /\ ~ENABLED client_connect(1))
    /\ [][ServerCancelled' => st_out' = st_out]_vars

\* the server was cancelled after it had relayed a chunk; the peer has sent
\* another one, which is not written
C24_Witness ==
    /\ ServerCancelled
    /\ conn = 1
    /\ st_out # <<>>
    /\ Len(c_sent[1]) > Len(st_out)

\* send_nro_file waits for an acknowledgement the peer has not sent
SendBlocked == s_pc \in {"hs_ack", "data_ack"} /\ Len(rx) < 4

\* start_server waits for a client, or for bytes of a peer that neither
\* sends nor closes
ServerBlocked ==
    \/ st_pc = "accept" /\ backlog = <<>>
    \/ st_pc = "read" /\ Unread = <<>> /\ c_state[conn] = "connected"

(* C25: no time limit ends the wait for an acknowledgement, for a client or
   for the bytes of a connected peer: in such a wait the call has not
   returned, and the only step of its own it can take is to fail with the
   error of the connection; it ends otherwise only by the cancellation of the
   select!, once an interrupt has arrived. discover alone has a timer: while
   it waits for a reply, time passes or its timeout fires. *)
C25_NoInternalTimeout ==
    /\ SendBlocked =>
          /\ s_result = NoResult
          /\ ~ENABLED ((SendNext /\ ~peer_send) /\ s_result' # IoErr)
          /\ (l_pc = "send" /\ ctrl_c) => ENABLED send_cancelled
    /\ ServerBlocked =>
          /\ st_result = NoStResult
          /\ ~ENABLED (StdioSteps /\ (st_pc' # "done" \/ st_result'.ok))
          /\ (l_pc = "server" /\ ctrl_c) => ENABLED server_cancelled
    /\ (d_pc = "recv_pong" /\ inbox = <<>>) => ENABLED (tick \/ timeout_elapsed)

\* the upload waits for the second acknowledgement, nothing having come
C25_Witness ==
    /\ l_pc = "send"
    /\ s_pc = "data_ack"
    /\ rx = <<>>
    /\ peer_sent = 1
    /\ ~ctrl_c

-----------------------------------------------------------------------------
(* The attempts of discover *)

\* the step sends a probe
SendsProbe == probes' = probes + 1

\* the step ends the current attempt: the loop goes to the next one, or
\* discover returns
EndsAttempt ==
    \/ d_pc' = "send_ping" /\ attempt' = attempt + 1
    \/ d_pc' = "done"

\* the step is one in which send_to or recv_from has completed without a valid
\* reply, or the timer of the attempt has fired
AttemptOver ==
    \/ io_failures' # io_failures
    \/ Receives /\ ~ValidReply(JustReceived)
    \/ windows' # windows

(* C31: discover never sends more probes than retries; an attempt sends its
   one probe and only then waits for a reply, and sends no other; the attempt
   number goes up by one at a time, exactly when an attempt is over, and the
   next attempt starts by sending; and a step that receives a malformed datagram ends the current
   attempt in that step, without time passing and without a timeout, going to
   the attempt after it or returning. *)
C31_AttemptAccounting ==
    [][/\ probes' <= retries
       /\ probes' <= attempt' + 1
       /\ probes' # probes =>
             /\ SendsProbe
             /\ d_pc = "send_ping" /\ d_pc' = "recv_pong"
             /\ attempt' = attempt
       /\ (d_pc # "recv_pong" /\ d_pc' = "recv_pong") => SendsProbe
       /\ attempt' # attempt =>
             /\ attempt' = attempt + 1
             /\ InLoop
             /\ d_pc' = "send_ping" \/ (d_pc' = "done" /\ attempt' = retries)
       /\ (InLoop /\ AttemptOver) => EndsAttempt
       /\ (Receives /\ ~ValidReply(JustReceived)) =>
             /\ d_pc = "recv_pong"
             /\ EndsAttempt
             /\ now' = now
             /\ windows' = windows
             /\ probes' = probes]_vars

\* the first attempt of three has received a malformed datagram before its
\* timer fired, and the second attempt is about to send its probe
C31_Witness ==
    /\ retries = 3
    /\ timeout = 2
    /\ Len(received) = 1
    /\ received[1].payload = <<110, 120, 98, 111, 111, 116>>
    /\ attempt = 1
    /\ d_pc = "send_ping"
    /\ probes = 1
    /\ windows = 0
    /\ now < 2

-----------------------------------------------------------------------------
(* The target of the upload *)

\* the flow has ended after discover gave no address
NoTarget ==
    \/ Printed("No server found in the network")
    \/ Printed("Server discovery failed")

\* send_nro_file has been called: its connection is being opened, is open, or
\* was open
UploadCalled ==
    \/ s_pc # "off"
    \/ Printed("File sent successfully")
    \/ Printed("Failed to send the file")
    \/ Printed("Aborted by the user")

(* C32: the upload is called only with a target address: the one given, and
   then discover is not called and no probe is sent, or the one discover
   returned.  When discover returns Ok(None) or an error, the flow (unless an
   interrupt ends the process first) prints the outcome and ends in that step: send_nro_file is never called, so no
   connection is opened, the stdio server is not started, and the flow takes
   no further step. *)
C32_TargetGatesUpload ==
    /\ [](UploadCalled =>
             /\ remote_addr # ""
             /\ address # "" => remote_addr = address)
    /\ [](address # "" => (d_pc = "off" /\ probes = 0 /\ ~NoTarget))
    /\ [][(l_pc = "discover" /\ d_pc = "done" /\ d_pc' = "off" /\ ~Interrupted
              /\ ~(d_result.ok /\ d_result.kind = "Some")) =>
            /\ l_pc' = "exit"
            /\ l_out' = <<IF d_result.kind = "None"
                          THEN "No server found in the network"
                          ELSE "Server discovery failed">>
            /\ s_pc' = "off" /\ st_pc' = "off"]_vars
    /\ [](NoTarget =>
             /\ l_pc = "exit"
             /\ Len(l_out) = 1
             /\ remote_addr = ""
             /\ s_pc = "off" /\ s_log = <<>>
             /\ st_pc = "off" /\ accepts = 0
             /\ ~ENABLED LinkNext)

\* discover(250 ms, 1) has sent its probe, waited and returned Ok(None), and
\* the flow has ended
C32_Witness ==
    /\ address = ""
    /\ l_retries = 1
    /\ server
    /\ l_pc = "exit"
    /\ l_out = <<"No server found in the network">>
    /\ s_pc = "off"
    /\ st_pc = "off"

-----------------------------------------------------------------------------
(* Replies that come late *)

\* q is p with datagrams appended
Extends(p, q) == Len(p) <= Len(q) /\ SubSeq(q, 1, Len(p)) = p

\* a reply from ip, come after an attempt has timed out, is the next datagram
\* recv_from will hand over
LateReplyFrom(ip) ==
    /\ d_pc \in {"send_ping", "recv_pong"}
    /\ windows >= 1
    /\ inbox # <<>>
    /\ ValidReply(Head(inbox))
    /\ Head(inbox).src = ip

\* discover has returned the address ip, or the error of a socket call
FoundOrIoError(ip) ==
    /\ d_pc = "done"
    /\ \/ d_result = [ok |-> TRUE, kind |-> "Some", cause |-> "", ip |-> ip]
       \/ ~d_result.ok /\ d_result.cause = "io"

(* C33: receive_socket is bound once, before the loop, so a datagram stays
   queued from one attempt to the next: it leaves the queue only by being
   received.  A reply that comes after an attempt has timed out, while a later
   attempt runs or is about to, is the next datagram received: the timer
   cannot end an attempt while it is queued, the attempt that receives it
   returns the address of its sender, and discover does return that address
   unless send_to or recv_from fails; it never returns Ok(None) with a
   datagram left unread.  Once the timer of the last attempt has fired,
   discover has returned Ok(None), its sockets are gone, and nothing that
   comes later is received. *)
C33_LateReply ==
    /\ [][~Receives => Extends(inbox, inbox')]_vars
    /\ [][Receives => (received' = Append(received, Head(inbox)) /\ inbox' = Tail(inbox))]_vars
    /\ []((\E ip \in Senders : LateReplyFrom(ip)) =>
             /\ ~ENABLED timeout_elapsed
             /\ attempt < retries)
    /\ [][(Receives /\ ValidReply(JustReceived)) =>
            /\ d_pc' = "done"
            /\ d_result' = [ok |-> TRUE, kind |-> "Some", cause |-> "",
                            ip |-> JustReceived.src]]_vars
    /\ \A ip \in Senders : LateReplyFrom(ip) ~> FoundOrIoError(ip)
    /\ []((d_pc = "done" /\ d_result.ok /\ d_result.kind = "None") => inbox = <<>>)
    /\ [][(windows' = windows + 1 /\ attempt + 1 = retries) =>
            /\ d_pc' = "done"
            /\ d_result' = [ok |-> TRUE, kind |-> "None", cause |-> "", ip |-> ""]]_vars
    /\ [](d_pc = "done" => ~ENABLED DiscNext)

\* two attempts of three have timed out, the reply has come after that, and the
\* third attempt has received it
C33_Witness ==
    /\ retries = 3
    /\ windows = 2
    /\ attempt = 2
    /\ probes = 3
    /\ arrived = 1
    /\ now >= 2 * timeout
    /\ Len(received) = 1
    /\ ValidReply(received[1])
    /\ d_pc = "done"
    /\ d_result.kind = "Some"
    /\ d_result.ip = received[1].src

-----------------------------------------------------------------------------
(* The sizes of the data frames *)

\* the lengths that the length prefixes in a sequence of frames declare; the
\* last frame may be cut short
RECURSIVE FrameLens(_)
FrameLens(b) ==
    IF Len(b) < 4 THEN {}
    ELSE {FromLE32(SubSeq(b, 1, 4))}
         \cup FrameLens(SubSeq(b, 5 + FromLE32(SubSeq(b, 1, 4)), Len(b)))

\* the loop of compress_and_send_nro_file_data is between two frames, or over
BetweenFrames == s_pc \in {"enc_read", "data_ack", "send_nro_args"} \/ NumReads >= 2

(* C34: every data frame declares a payload of 1 to 16384 bytes, and none
   declares 0; between two frames and after the last, what was written in the
   streaming phase is a sequence of complete frames, each prefix followed by
   exactly as many bytes as it declares; the prefix being written is the
   length of the bytes the encoder's read has just returned; and the read
   that returns no bytes ends the loop without writing anything. *)
C34_DataFrameSizes ==
    /\ [](\A n \in FrameLens(DataSoFar) : 1 <= n /\ n <= 16384)
    /\ [](BetweenFrames => WellFramed(DataSoFar))
    /\ []((s_pc = "wlp_data" /\ s_site = "chunk") =>
             /\ Len(s_frame) \in 1..16384
             /\ s_log[Len(s_log)].op = "write"
             /\ FromLE32(s_log[Len(s_log)].bytes) = Len(s_frame))
    /\ [][(s_pc = "wlp_data" /\ s_site = "chunk" /\ s_pc' = "enc_read") =>
            s_log' = Append(s_log, [op |-> "write", bytes |-> s_frame])]_vars
    /\ [][(s_pc = "enc_read" /\ s_pc' = "data_ack") =>
            (zrest = <<>> /\ s_log' = s_log)]_vars

\* a stream of 16385 bytes went out as a frame of 16384 bytes and one of a
\* single byte
C34_Witness ==
    /\ s_result.ok
    /\ Len(zstream) = 16385
    /\ FrameLens(DataSoFar) = {16384, 1}
    /\ short_reads = 0

-----------------------------------------------------------------------------
(* The file length on the wire *)

\* the four bytes written after the name frame: the file-length field
LengthField ==
    LET b == Written(1, IF NumReads = 0 THEN Len(s_log) ELSE FirstRead - 1)
    IN SubSeq(b, 5 + Len(file_name), 8 + Len(file_name))

\* the field was written
LengthSent == s_pc = "hs_ack" \/ NumReads >= 1

\* file_length, a usize, is lo + 2^32 * hi: its two halves as numbers (the
\* lengths tried have halves below 2^31)
LowHalf == file_length[1] + 256 * file_length[2] + 65536 * file_length[3]
           + 16777216 * file_length[4]

HighHalf == file_length[5] + 256 * file_length[6] + 65536 * file_length[7]
            + 16777216 * file_length[8]

(* C35: the file-length field is file_length modulo 2^32, little-endian: its
   value is the low half of file_length, which is file_length itself when
   the high half is 0; a file_length of 2^32 or more raises no error: the
   field is written all the same, the only failure of that write is the
   connection's, and the call goes on to wait for the acknowledgement. *)
C35_LengthModulo ==
    /\ [](LengthSent =>
             /\ Len(LengthField) = 4
             /\ LengthField[4] < 128
             /\ LengthField[1] + 256 * LengthField[2] + 65536 * LengthField[3]
                  + 16777216 * LengthField[4] = LowHalf)
    /\ [](s_pc = "file_len" => ENABLED (write_file_length /\ s_pc' = "hs_ack"))
    /\ [][(s_pc = "file_len" /\ s_pc' = "done") =>
            s_result' = [ok |-> FALSE, kind |-> "io", variant |-> "", code |-> 0]]_vars

\* a file of 2^32 + 8 bytes was declared, 8 was sent, and the call succeeded
C35_Witness ==
    /\ s_result.ok
    /\ HighHalf = 1
    /\ LowHalf = 8
    /\ LengthField = <<8, 0, 0, 0>>

-----------------------------------------------------------------------------
(* The assertion of SendNroError::from *)

\* the step makes send_nro_file return an error built by SendNroError::from:
\* the conversion was invoked in it
Converts == s_result.kind # "SendNroError" /\ s_result'.kind = "SendNroError"

\* the step reads four bytes of the connection as an acknowledgement code
ReadsCode ==
    /\ Len(s_log') = Len(s_log) + 1
    /\ s_log'[Len(s_log')].op = "read"

\* the four bytes read by the step
CodeRead == s_log'[Len(s_log')].bytes

(* C36: `debug_assert!(value != 0)` holds whenever SendNroError::from runs:
   the conversion is invoked only by the step that reads the handshake
   acknowledgement, and only when the code read is not 0; a code of 0 read
   there makes no conversion: the call goes on to the data frames; so no
   error ever carries the code 0. *)
C36_AssertionHolds ==
    /\ [][Converts =>
            /\ s_pc = "hs_ack"
            /\ ReadsCode
            /\ CodeRead # <<0, 0, 0, 0>>]_vars
    /\ [][(s_pc = "hs_ack" /\ ReadsCode /\ CodeRead = <<0, 0, 0, 0>>) =>
            /\ ~Converts
            /\ s_pc' = "enc_read"
            /\ s_result' = s_result]_vars
    /\ [](s_result.kind = "SendNroError" =>
             ~(s_result.variant = "UnknownError" /\ s_result.code = 0))

\* the conversion has run on a code that none of its arms names
C36_Witness ==
    /\ s_result.kind = "SendNroError"
    /\ s_result.variant = "UnknownError"
    /\ s_result.code = 2147483647
    /\ NumReads = 1
    /\ s_log[Len(s_log)].bytes = <<255, 255, 255, 127>>

=============================================================================
